---- MODULE Spec2Model ----
(***************************************************************************)
(* Model of the survey dashboard's data core:                              *)
(*   - src/column_mapping.py            (_slugify, _load_mapping,          *)
(*                                       _infer_mapping_from_df,           *)
(*                                       apply_column_mapping)             *)
(*   - src/streamlit_app_cefet.py       (load_column_mapping,              *)
(*                                       apply_mapping, process_data,      *)
(*                                       show_courses_analysis)            *)
(*   - src/streamlit_app.py             (processar_dados,                  *)
(*                                       criar_analise_cursos)             *)
(*   - src/JOAO-cefet-main/streamlit_app.py (process_data, the render      *)
(*                                       functions, likert_to_index)       *)
(*                                                                         *)
(* Text is a sequence of characters; a character is a one-character        *)
(* string, or "U+XXXX" for a character outside ASCII.                      *)
(*                                                                         *)
(* The specifications share the variables, each pinning the variables of   *)
(* the others:                                                             *)
(*   SpecSlug   : _slugify applied to one value                            *)
(*   SpecMap    : loading and applying the column mapping to one table     *)
(*   Spec       : one dashboard session over one table of responses        *)
(*   SpecDist   : one distinct-respondent distribution of a render function*)
(*   SpecTabs   : main() drawing its tabs over the columns of a table      *)
(*   SpecAge    : the age distribution of the profile tab                  *)
(*   SpecLikert : likert_to_index over one column                          *)
(***************************************************************************)
EXTENDS Integers, Sequences, FiniteSets, TLC

VARIABLES
    \* ---- SpecSlug
    slug_pc,        \* "init" | "called" | "again" | "done" | "off"
    slug_in,        \* the value handed to _slugify
    slug_out,       \* _slugify(slug_in)
    slug_again,     \* _slugify(slug_out)
    slug_str_out,   \* _slugify(str(slug_in))
    \* ---- SpecMap
    map_pc,         \* "init" | "loaded" | "applied" | "failed" | "off"
    map_variant,    \* "cefet" (streamlit_app_cefet.py) | "module" (column_mapping.py)
    map_df,         \* the input table: [columns, rows]
    map_file,       \* columns_classification.csv: [exists, columns, rows]
    map_loaded,     \* what the loader returned: [mapping, labels, classes]
    map_out,        \* the renamed table: [columns, rows]
    map_error,      \* "" or the exception that escaped
    \* ---- Spec
    pc,             \* position in main()
    variant,        \* "app" | "cefet" | "joao"
    df,             \* the table read from the workbook
    df_processed,   \* what process_data / processar_dados returned
    stats,          \* the duplication statistics
    cursos,         \* the course distribution table shown by the courses tab
    \* ---- SpecDist
    dist_pc,        \* "init" | "shown" | "off"
    dist_fn,        \* the render function that drew the distribution
    dist_df,        \* the processed table handed to the render function
    dist_out,       \* the distribution it drew: [shown, counts, total, pct]
    \* ---- SpecTabs
    tab_pc,         \* "loaded" | "tabs" | "done" | "stopped" | "error" | "off"
    tab_variant,    \* "app" | "cefet" | "joao"
    tab_cols,       \* the columns the uploaded table has
    tab_next,       \* the index of the next render function main() calls
    tab_view,       \* what each statistic shows, by <<render function, statistic>>
    tab_error,      \* "" or the error main() reported
    tab_download,   \* whether the download section was reached
    \* ---- SpecAge
    age_pc,         \* "init" | "shown" | "off"
    age_variant,    \* "app" | "cefet" | "joao"
    age_observed,   \* the default of groupby(observed=...) of the installed pandas
    age_raw,        \* the table as read from the workbook
    age_df,         \* the processed table handed to the render function
    age_out,        \* the age distribution it drew
    \* ---- SpecLikert
    lik_pc,         \* "init" | "called" | "off"
    lik_series,     \* the column handed to likert_to_index
    lik_out,        \* what likert_to_index returned
    lik_listed,     \* whether the caller put the index in its table of indices
    \* ---- SpecMatrix
    mx_pc,          \* "init" | "created" | "off"
    mx_df,          \* the table handed to create_likert_matrix
    mx_out,         \* the rows of the matrix it returned
    \* ---- SpecKpi
    kpi_pc,         \* "init" | "shown" | "off"
    kpi_variant,    \* "app" | "cefet" | "joao"
    kpi_df,         \* the processed table handed to the overview
    kpi_out,        \* the percentages the overview showed, or the exception
    \* ---- SpecId
    id_pc,          \* "init" | "found" | "off"
    id_columns,     \* the headers of the table, in order
    id_out,         \* what find_respondent_id_col returned, or the exception
    \* ---- SpecExport
    exp_pc,         \* position in main()
    exp_variant,    \* "app" | "cefet" | "joao"
    exp_in,         \* the table read from the workbook
    exp_df,         \* df_processed
    exp_out         \* the table offered for download

slugVars == <<slug_pc, slug_in, slug_out, slug_again, slug_str_out>>
mapVars  == <<map_pc, map_variant, map_df, map_file, map_loaded, map_out, map_error>>
sessVars == <<pc, variant, df, df_processed, stats, cursos>>
distVars == <<dist_pc, dist_fn, dist_df, dist_out>>
tabVars  == <<tab_pc, tab_variant, tab_cols, tab_next, tab_view, tab_error, tab_download>>
ageVars  == <<age_pc, age_variant, age_observed, age_raw, age_df, age_out>>
likVars  == <<lik_pc, lik_series, lik_out, lik_listed>>
mxVars   == <<mx_pc, mx_df, mx_out>>
kpiVars  == <<kpi_pc, kpi_variant, kpi_df, kpi_out>>
idVars   == <<id_pc, id_columns, id_out>>
expVars  == <<exp_pc, exp_variant, exp_in, exp_df, exp_out>>
lateVars == <<mxVars, kpiVars, idVars, expVars>>
restVars == <<distVars, tabVars, ageVars, likVars, lateVars>>
vars     == <<slugVars, mapVars, sessVars, restVars>>

(***************************************************************************)
(* Bounds                                                                  *)
(***************************************************************************)
MaxLen        == 3     \* length of a short text handed to _slugify
MaxLongPrefix == 1     \* length of the part before the long run of a long header
LongPad       == 121   \* length of the run that makes a header long
MaxInt        == 12    \* largest magnitude of an integer header
MaxCols       == 2     \* columns of the table whose headers are renamed
MaxDataRows   == 1     \* rows of the table whose headers are renamed
MaxMapRows    == 2     \* data rows of columns_classification.csv
MaxRows       == 3     \* rows of the table of responses
MaxIds        == 2     \* distinct respondent identifiers
MaxAgeRows    == 2     \* rows of the table whose ages are bucketed
MaxSeries     == 3     \* cells of the column handed to likert_to_index
MaxMxRows     == 2     \* rows of the table handed to create_likert_matrix
MaxExpRows    == 2     \* rows of the workbook of a session that ends in a download
MaxKpiRows    == 2     \* rows of the workbook whose overview is shown
MaxIdCols     == 3     \* columns of the table whose identifier column is looked for

(***************************************************************************)
(* Generic helpers                                                         *)
(***************************************************************************)
SeqsUpTo(S, n) == UNION {[1..k -> S] : k \in 0..n}

Range(s) == {s[i] : i \in DOMAIN s}

(***************************************************************************)
(* Characters                                                              *)
(***************************************************************************)
Digits == {"0","1","2","3","4","5","6","7","8","9"}
LowerLetters == {"a","b","c","d","e","f","g","h","i","j","k","l","m",
                 "n","o","p","q","r","s","t","u","v","w","x","y","z"}
UpperLetters == {"A","B","C","D","E","F","G","H","I","J","K","L","M",
                 "N","O","P","Q","R","S","T","U","V","W","X","Y","Z"}

\* unicodedata.combining(ch) != 0 : U+0301 COMBINING ACUTE ACCENT,
\* U+0327 COMBINING CEDILLA
Combining(ch) == ch \in {"U+0301", "U+0327"}

\* unicodedata.normalize("NFKD", ch) for one character:
\*   U+00C9 (E acute)       -> E, U+0301
\*   U+00E7 (c cedilla)     -> c, U+0327
\*   U+00B2 (superscript 2) -> 2          (compatibility decomposition)
\*   U+00F8 (o with stroke) has no decomposition; ASCII is unchanged
NFKDChar(ch) ==
    CASE ch = "U+00C9" -> <<"E", "U+0301">>
      [] ch = "U+00E7" -> <<"c", "U+0327">>
      [] ch = "U+00B2" -> <<"2">>
      [] OTHER         -> <<ch>>

\* the character class [0-9a-zA-Z] of the regular expression (ASCII only)
IsAsciiAlnum(ch) == ch \in Digits \cup LowerLetters \cup UpperLetters

\* str.lower() on one character of [0-9a-zA-Z_]
LowerChar(ch) ==
    CASE ch = "A" -> "a" [] ch = "B" -> "b" [] ch = "C" -> "c" [] ch = "D" -> "d"
      [] ch = "E" -> "e" [] ch = "F" -> "f" [] ch = "G" -> "g" [] ch = "H" -> "h"
      [] ch = "I" -> "i" [] ch = "J" -> "j" [] ch = "K" -> "k" [] ch = "L" -> "l"
      [] ch = "M" -> "m" [] ch = "N" -> "n" [] ch = "O" -> "o" [] ch = "P" -> "p"
      [] ch = "Q" -> "q" [] ch = "R" -> "r" [] ch = "S" -> "s" [] ch = "T" -> "t"
      [] ch = "U" -> "u" [] ch = "V" -> "v" [] ch = "W" -> "w" [] ch = "X" -> "x"
      [] ch = "Y" -> "y" [] ch = "Z" -> "z"
      [] OTHER -> ch

(***************************************************************************)
(* _slugify, step by step (src/column_mapping.py:5-15)                     *)
(***************************************************************************)
RECURSIVE NFKDRange(_, _, _)
\* the decompositions of s[lo..hi], concatenated (split in halves, so that a
\* long text needs no deep recursion)
NFKDRange(s, lo, hi) ==
    IF lo > hi THEN <<>>
    ELSE IF lo = hi THEN NFKDChar(s[lo])
    ELSE LET mid == (lo + hi) \div 2
         IN  NFKDRange(s, lo, mid) \o NFKDRange(s, mid + 1, hi)

\* unicodedata.normalize("NFKD", text)
NFKD(s) == NFKDRange(s, 1, Len(s))

\* "".join(ch for ch in text if not unicodedata.combining(ch))
DropCombining(s) == SelectSeq(s, LAMBDA ch : ~Combining(ch))

\* the characters each of the two regular expressions matches:
\*   "nonalnum"   [^0-9a-zA-Z]      "underscore"   _
Matches(class, ch) ==
    IF class = "nonalnum" THEN ~IsAsciiAlnum(ch) ELSE ch = "_"

\* re.sub(r"<class>+", "_", s): every maximal run of matching characters
\* becomes one "_" (the first character of a run is replaced, the others go)
SubRuns(s, class) ==
    LET InRun(i)  == Matches(class, s[i])
        Stays(i)  == ~(InRun(i) /\ i > 1 /\ InRun(i - 1))
        kept      == SelectSeq([i \in 1..Len(s) |-> i], Stays)
    IN  [k \in 1..Len(kept) |-> IF InRun(kept[k]) THEN "_" ELSE s[kept[k]]]

\* re.sub(r"[^0-9a-zA-Z]+", "_", text)
SubNonAlnum(s) == SubRuns(s, "nonalnum")

\* re.sub(r"_+", "_", text)
SubUnderscores(s) == SubRuns(s, "underscore")

\* text.strip("_")
StripUnderscores(s) ==
    LET keep == {i \in DOMAIN s : s[i] # "_"}
    IN  IF keep = {} THEN <<>>
        ELSE LET lo == CHOOSE i \in keep : \A j \in keep : i <= j
                 hi == CHOOSE i \in keep : \A j \in keep : j <= i
             IN  SubSeq(s, lo, hi)

\* text.lower()
Lower(s) == [i \in DOMAIN s |-> LowerChar(s[i])]

\* faulty variant: the strip runs before the substitution instead of after it
SlugTextStripFirst(s) ==
    SubUnderscores(Lower(SubNonAlnum(StripUnderscores(DropCombining(NFKD(s))))))

\* lines 9-15 of _slugify, on the text str(text)
SlugText(s) ==
    SubUnderscores(Lower(StripUnderscores(SubNonAlnum(DropCombining(NFKD(s))))))

(***************************************************************************)
(* Python values and str()                                                 *)
(***************************************************************************)
None     == [t |-> "none"]
NaN      == [t |-> "nan"]     \* float("nan"): an empty cell read by pandas
PyInt(n) == [t |-> "int", v |-> n]
PyStr(s) == [t |-> "str", v |-> s]

DigitChar(d) ==
    CASE d = 0 -> "0" [] d = 1 -> "1" [] d = 2 -> "2" [] d = 3 -> "3" [] d = 4 -> "4"
      [] d = 5 -> "5" [] d = 6 -> "6" [] d = 7 -> "7" [] d = 8 -> "8" [] d = 9 -> "9"

RECURSIVE NatDigits(_)
NatDigits(n) ==
    IF n < 10 THEN <<DigitChar(n)>> ELSE Append(NatDigits(n \div 10), DigitChar(n % 10))

\* str(x)
Str(x) ==
    CASE x.t = "none" -> <<"N", "o", "n", "e">>
      [] x.t = "nan"  -> <<"n", "a", "n">>
      [] x.t = "int"  -> IF x.v < 0 THEN <<"-">> \o NatDigits(-x.v) ELSE NatDigits(x.v)
      [] x.t = "str"  -> x.v

\* faulty variant: no guard for None, str(None) is slugified
SlugifyNoGuard(x) == SlugText(Str(x))

\* _slugify(text)
Slugify(x) == IF x = None THEN <<>> ELSE SlugText(Str(x))

(***************************************************************************)
(* Tables and dicts                                                        *)
(***************************************************************************)
\* a DataFrame: [columns |-> sequence of headers, rows |-> sequence of rows],
\* a row being the sequence of its cells in column order
EmptyDict == [k \in {} |-> <<>>]

\* d[k] = v
Put(d, k, v) == [x \in DOMAIN d \cup {k} |-> IF x = k THEN v ELSE d[x]]

\* d.get(k, default)
Get(d, k, default) == IF k \in DOMAIN d THEN d[k] ELSE default

\* faulty variant: a column the mapping does not name is slugified
RenameSlugifyingRest(t, mapping) ==
    [columns |-> [j \in DOMAIN t.columns |->
                    Get(mapping, t.columns[j], Slugify(PyStr(t.columns[j])))],
     rows    |-> t.rows]

\* df.rename(columns=mapping): each header that is a key is replaced by its
\* value, in place; the data is untouched
Rename(t, mapping) ==
    [columns |-> [j \in DOMAIN t.columns |-> Get(mapping, t.columns[j], t.columns[j])],
     rows    |-> t.rows]

\* the position of the column named c (the first one)
ColIndex(columns, c) ==
    CHOOSE j \in DOMAIN columns :
        columns[j] = c /\ \A k \in DOMAIN columns : columns[k] = c => j <= k

(***************************************************************************)
(* The mapping file columns_classification.csv                             *)
(***************************************************************************)
Required == {"coluna_original", "classe", "rotulo_publico", "nome_tecnico"}

\* str.lower on the column names the file may carry
LowerName(c) ==
    CASE c = "Coluna_Original" -> "coluna_original"
      [] c = "Classe"          -> "classe"
      [] OTHER                 -> c

\* lines 24-30 of _load_mapping: when the lower-cased column names do not
\* cover the required ones, the columns that match one case-insensitively are
\* renamed to it
AlignColumns(columns) ==
    IF Required \subseteq {LowerName(c) : c \in Range(columns)}
    THEN columns
    ELSE LET cols == [l \in {LowerName(c) : c \in Range(columns)} |->
                        columns[CHOOSE j \in DOMAIN columns :
                                  /\ LowerName(columns[j]) = l
                                  /\ \A k \in DOMAIN columns :
                                        LowerName(columns[k]) = l => k <= j]]
             ren  == [c \in {Get(cols, r, r) : r \in Required} |->
                        CHOOSE r \in Required : Get(cols, r, r) = c]
         IN  [j \in DOMAIN columns |-> Get(ren, columns[j], columns[j])]

\* truth value of a Python str
Truthy(text) == text # <<>>

RECURSIVE LoadRows(_, _, _, _)
\* lines 34-42 of _load_mapping, from row i on; acc is [mapping, labels,
\* classes]. r["..."] on a column the frame lacks raises KeyError.
LoadRows(columns, rows, i, acc) ==
    IF i > Len(rows) THEN [error |-> "", isNone |-> FALSE] @@ acc
    ELSE IF ~(Required \subseteq Range(columns))
    THEN [error |-> "KeyError", isNone |-> FALSE] @@ acc
    ELSE LET r    == rows[i]
             orig == Str(r[ColIndex(columns, "coluna_original")])
             tech == Str(r[ColIndex(columns, "nome_tecnico")])
             lab  == Str(r[ColIndex(columns, "rotulo_publico")])
             cls  == Str(r[ColIndex(columns, "classe")])
         IN  IF Truthy(orig) /\ Truthy(tech)
             THEN LoadRows(columns, rows, i + 1,
                    [mapping |-> Put(acc.mapping, orig, tech),
                     labels  |-> Put(acc.labels, tech, IF Truthy(lab) THEN lab ELSE orig),
                     classes |-> Put(acc.classes, tech, IF Truthy(cls) THEN cls ELSE <<>>)])
             ELSE LoadRows(columns, rows, i + 1, acc)

NoDicts == [mapping |-> EmptyDict, labels |-> EmptyDict, classes |-> EmptyDict]

\* _load_mapping(path): [error, isNone, mapping, labels, classes]; isNone
\* stands for a mapping that is None
LoadMapping(file) ==
    IF ~file.exists
    THEN [error |-> "", isNone |-> TRUE] @@ NoDicts
    ELSE LoadRows(AlignColumns(file.columns), file.rows, 1, NoDicts)

RECURSIVE InferFrom(_, _, _)
\* the loop of _infer_mapping_from_df from column j on
InferFrom(columns, j, acc) ==
    IF j > Len(columns) THEN acc
    ELSE LET col  == columns[j]
             tech == Slugify(PyStr(col))
         IN  InferFrom(columns, j + 1,
                [mapping |-> Put(acc.mapping, col, tech),
                 labels  |-> Put(acc.labels, tech, col),
                 classes |-> Put(acc.classes, tech, <<>>)])

\* faulty variant: the respondent-identifier column is left out of the
\* inferred mapping
InferMappingSkippingId(t) ==
    InferFrom(SelectSeq(t.columns, LAMBDA c : Slugify(PyStr(c)) # <<"r","e","s","p","o","n","d","e","n","t","_","i","d">>),
              1, NoDicts)

\* _infer_mapping_from_df(df): [mapping, labels, classes]
InferMapping(t) == InferFrom(t.columns, 1, NoDicts)

\* apply_column_mapping(df, mapping_path): [error, df2, labels, classes, mapping];
\* an error of _load_mapping is not caught
ApplyColumnMappingResult(t, file) ==
    LET loaded == LoadMapping(file)
        used   == IF loaded.isNone THEN InferMapping(t) ELSE loaded
    IN  IF loaded.error # ""
        THEN [error |-> loaded.error, df2 |-> t] @@ NoDicts
        ELSE [error |-> "", df2 |-> Rename(t, used.mapping),
              mapping |-> used.mapping, labels |-> used.labels,
              classes |-> used.classes]

RECURSIVE ZipDict(_, _, _, _, _)
\* dict(zip(frame[kcol], frame[vcol])) from row i on: a later row with the same
\* key replaces the earlier one
ZipDict(rows, kj, vj, i, acc) ==
    IF i > Len(rows) THEN acc
    ELSE ZipDict(rows, kj, vj, i + 1, Put(acc, Str(rows[i][kj]), rows[i][vj]))

\* load_column_mapping(): [error, mapping, labels, classes]; the frame is
\* indexed by the four names as they are, a missing one raises KeyError
LoadColumnMappingResult(file) ==
    IF ~file.exists
    THEN [error |-> ""] @@ NoDicts
    ELSE IF ~(Required \subseteq Range(file.columns))
    THEN [error |-> "KeyError"] @@ NoDicts
    ELSE LET o == ColIndex(file.columns, "coluna_original")
             n == ColIndex(file.columns, "nome_tecnico")
             l == ColIndex(file.columns, "rotulo_publico")
             c == ColIndex(file.columns, "classe")
             techs == ZipDict(file.rows, o, n, 1, EmptyDict)
         IN  [error   |-> "",
              mapping |-> [k \in DOMAIN techs |-> Str(techs[k])],
              labels  |-> ZipDict(file.rows, n, l, 1, EmptyDict),
              classes |-> ZipDict(file.rows, n, c, 1, EmptyDict)]

\* apply_mapping(df, col_to_tech)
ApplyMappingResult(t, col_to_tech) ==
    IF DOMAIN col_to_tech = {}
    THEN t
    ELSE LET keys == {orig \in DOMAIN col_to_tech : orig \in Range(t.columns)}
         IN  Rename(t, [orig \in keys |-> col_to_tech[orig]])

(***************************************************************************)
(* SpecSlug: _slugify applied to one value                                 *)
(***************************************************************************)
\* characters of the short texts: a lower-case letter, an upper-case letter,
\* a digit, the underscore, a space, an accented letter, a letter with no
\* decomposition
SlugAlphabet == {"a", "B", "7", "_", " ", "U+00C9", "U+00F8"}

ShortTexts == SeqsUpTo(SlugAlphabet, MaxLen)

\* multi-sentence question texts: a short prefix followed by a long run
LongTexts ==
    {p \o [i \in 1..LongPad |-> "a"] : p \in SeqsUpTo(SlugAlphabet, MaxLongPrefix)}

SlugInputs ==
    {None} \cup {PyInt(n) : n \in (-MaxInt)..MaxInt}
           \cup {PyStr(s) : s \in ShortTexts \cup LongTexts}

SlugOff ==
    /\ slug_pc = "off"
    /\ slug_in = None
    /\ slug_out = <<>>
    /\ slug_again = <<>>
    /\ slug_str_out = <<>>

MapOff ==
    /\ map_pc = "off"
    /\ map_variant = "off"
    /\ map_df = <<>>
    /\ map_file = <<>>
    /\ map_loaded = <<>>
    /\ map_out = <<>>
    /\ map_error = ""

SessOff ==
    /\ pc = "off"
    /\ variant = "off"
    /\ df = <<>>
    /\ df_processed = <<>>
    /\ stats = <<>>
    /\ cursos = <<>>

DistOff ==
    /\ dist_pc = "off"
    /\ dist_fn = "off"
    /\ dist_df = <<>>
    /\ dist_out = <<>>

TabOff ==
    /\ tab_pc = "off"
    /\ tab_variant = "off"
    /\ tab_cols = {}
    /\ tab_next = 0
    /\ tab_view = <<>>
    /\ tab_error = ""
    /\ tab_download = FALSE

AgeOff ==
    /\ age_pc = "off"
    /\ age_variant = "off"
    /\ age_observed = FALSE
    /\ age_raw = <<>>
    /\ age_df = <<>>
    /\ age_out = <<>>

LikOff ==
    /\ lik_pc = "off"
    /\ lik_series = <<>>
    /\ lik_out = <<>>
    /\ lik_listed = FALSE

MxOff ==
    /\ mx_pc = "off"
    /\ mx_df = <<>>
    /\ mx_out = <<>>

KpiOff ==
    /\ kpi_pc = "off"
    /\ kpi_variant = "off"
    /\ kpi_df = <<>>
    /\ kpi_out = <<>>

IdOff ==
    /\ id_pc = "off"
    /\ id_columns = <<>>
    /\ id_out = <<>>

ExpOff ==
    /\ exp_pc = "off"
    /\ exp_variant = "off"
    /\ exp_in = <<>>
    /\ exp_df = <<>>
    /\ exp_out = <<>>

LateOff == MxOff /\ KpiOff /\ IdOff /\ ExpOff

RestOff == DistOff /\ TabOff /\ AgeOff /\ LikOff /\ LateOff

SlugInit ==
    /\ slug_pc = "init"
    /\ slug_in \in SlugInputs
    /\ slug_out = <<>>
    /\ slug_again = <<>>
    /\ slug_str_out = <<>>
    /\ MapOff
    /\ SessOff
    /\ RestOff

\* tech = _slugify(col)
SlugifyCall ==
    /\ slug_pc = "init"
    /\ slug_out' = Slugify(slug_in)
    /\ slug_pc' = "called"
    /\ UNCHANGED <<slug_in, slug_again, slug_str_out, mapVars, sessVars, restVars>>

\* _slugify(_slugify(col))
SlugifyAgain ==
    /\ slug_pc = "called"
    /\ slug_again' = Slugify(PyStr(slug_out))
    /\ slug_pc' = "again"
    /\ UNCHANGED <<slug_in, slug_out, slug_str_out, mapVars, sessVars, restVars>>

\* _slugify(str(col))
SlugifyStrForm ==
    /\ slug_pc = "again"
    /\ slug_str_out' = Slugify(PyStr(Str(slug_in)))
    /\ slug_pc' = "done"
    /\ UNCHANGED <<slug_in, slug_out, slug_again, mapVars, sessVars, restVars>>

SlugNext == SlugifyCall \/ SlugifyAgain \/ SlugifyStrForm

SpecSlug == SlugInit /\ [][SlugNext]_vars

(***************************************************************************)
(* SpecMap: the column mapping loaded and applied to one table             *)
(***************************************************************************)
\* headers of the workbook
H_RespondentId == <<"R","e","s","p","o","n","d","e","n","t"," ","I","D">>
H_Idade        == <<"I","d","a","d","e">>
H_IDADE        == <<"I","D","A","D","E">>
H_idade        == <<"i","d","a","d","e">>
H_Curso        == <<"C","u","r","s","o">>

\* technical names, labels and classes of the mapping file
N_idade_anos   == <<"i","d","a","d","e","_","a","n","o","s">>
N_curso        == <<"c","u","r","s","o">>
L_Idade        == <<"A","g","e">>
L_IDADE        == <<"A","G","E">>
L_Curso        == <<"C","o","u","r","s","e">>
K_perfil       == <<"p","e","r","f","i","l">>

TableHeaders == {H_RespondentId, H_Idade, H_IDADE, H_idade}

\* the respondent-identifier column of the workbook
IsIdHeader(h) == h = H_RespondentId

Injective(f) == \A i, j \in DOMAIN f : f[i] = f[j] => i = j

\* the workbook's headers are distinct (the reader renames a repeated header)
MapTables ==
    {[columns |-> cs,
      rows    |-> [i \in 1..n |-> [j \in DOMAIN cs |-> 10 * i + j]]] :
        cs \in {c \in SeqsUpTo(TableHeaders, MaxCols) : c # <<>> /\ Injective(c)},
        n  \in 0..MaxDataRows}

\* the logical records a mapping file may hold
MapRecords ==
    {[orig |-> PyStr(H_Idade), tech |-> PyStr(N_idade_anos),
      lab  |-> PyStr(L_Idade), cls  |-> PyStr(K_perfil)],
     [orig |-> PyStr(H_IDADE), tech |-> PyStr(N_idade_anos),
      lab  |-> PyStr(L_IDADE), cls  |-> PyStr(K_perfil)],
     [orig |-> PyStr(H_Idade), tech |-> PyStr(H_idade),
      lab  |-> NaN,            cls  |-> NaN],
     [orig |-> PyStr(H_Curso), tech |-> PyStr(N_curso),
      lab  |-> PyStr(L_Curso), cls  |-> NaN]}

\* the header lines a mapping file may have: each column's name and the
\* field of the record it carries
MapShapes ==
    {<<[name |-> "coluna_original", field |-> "orig"], [name |-> "classe", field |-> "cls"],
       [name |-> "rotulo_publico", field |-> "lab"], [name |-> "nome_tecnico", field |-> "tech"]>>,
     <<[name |-> "Coluna_Original", field |-> "orig"], [name |-> "Classe", field |-> "cls"],
       [name |-> "rotulo_publico", field |-> "lab"], [name |-> "nome_tecnico", field |-> "tech"]>>,
     <<[name |-> "Coluna_Original", field |-> "orig"],
       [name |-> "rotulo_publico", field |-> "lab"], [name |-> "nome_tecnico", field |-> "tech"]>>,
     <<[name |-> "header_original", field |-> "orig"], [name |-> "grupo", field |-> "cls"],
       [name |-> "rotulo", field |-> "lab"], [name |-> "nome", field |-> "tech"]>>}

NoFile == [exists |-> FALSE, columns |-> <<>>, rows |-> <<>>]

MapFiles ==
    {NoFile} \cup
    {[exists  |-> TRUE,
      columns |-> [j \in DOMAIN shape |-> shape[j].name],
      rows    |-> [i \in DOMAIN recs |-> [j \in DOMAIN shape |-> recs[i][shape[j].field]]]] :
        shape \in MapShapes,
        recs  \in {r \in SeqsUpTo(MapRecords, MaxMapRows) : Injective(r)}}

NoTable == [columns |-> <<>>, rows |-> <<>>]

MapInit ==
    /\ map_pc = "init"
    /\ map_variant \in {"cefet", "module"}
    /\ map_df \in MapTables
    /\ map_file \in MapFiles
    /\ map_loaded = NoDicts
    /\ map_out = NoTable
    /\ map_error = ""
    /\ SlugOff
    /\ SessOff
    /\ RestOff

\* streamlit_app_cefet.py, main(): col_to_tech, tech_to_label, tech_to_class =
\* load_column_mapping(); not inside any try
LoadColumnMapping ==
    /\ map_pc = "init"
    /\ map_variant = "cefet"
    /\ LET res == LoadColumnMappingResult(map_file)
       IN  /\ map_error' = res.error
           /\ map_pc' = IF res.error = "" THEN "loaded" ELSE "failed"
           /\ map_loaded' = [mapping |-> res.mapping, labels |-> res.labels,
                             classes |-> res.classes]
    /\ UNCHANGED <<map_variant, map_df, map_file, map_out, slugVars, sessVars, restVars>>

\* streamlit_app_cefet.py, main(): df = apply_mapping(df, col_to_tech)
ApplyMapping ==
    /\ map_pc = "loaded"
    /\ map_variant = "cefet"
    /\ map_out' = ApplyMappingResult(map_df, map_loaded.mapping)
    /\ map_pc' = "applied"
    /\ UNCHANGED <<map_variant, map_df, map_file, map_loaded, map_error,
                   slugVars, sessVars, restVars>>

\* column_mapping.py: df2, labels, classes = apply_column_mapping(df)
ApplyColumnMapping ==
    /\ map_pc = "init"
    /\ map_variant = "module"
    /\ LET res == ApplyColumnMappingResult(map_df, map_file)
       IN  /\ map_error' = res.error
           /\ map_pc' = IF res.error = "" THEN "applied" ELSE "failed"
           /\ map_out' = IF res.error = "" THEN res.df2 ELSE NoTable
           /\ map_loaded' = [mapping |-> res.mapping, labels |-> res.labels,
                             classes |-> res.classes]
    /\ UNCHANGED <<map_variant, map_df, map_file, slugVars, sessVars, restVars>>

MapNext == LoadColumnMapping \/ ApplyMapping \/ ApplyColumnMapping

SpecMap == MapInit /\ [][MapNext]_vars

(***************************************************************************)
(* Spec: one dashboard session over one table of responses                 *)
(***************************************************************************)
\* a table of responses: [columns |-> set of column names,
\*                         rows    |-> sequence of rows], a row being a
\* function from the column names to the cells
NA == "NaN"     \* a missing cell

\* the course column each dashboard reads:
\*   streamlit_app.py        'CURSO DE GRADUACAO OF' (written with a cedilla
\*                           and a tilde in the source)
\*   streamlit_app_cefet.py  'curso_graduacao'
\*   JOAO-cefet-main         the first column whose lower-cased name contains
\*                           'curso' and 'graduacao'
CursoCol(v) ==
    CASE v = "app"   -> "CURSO DE GRADUACAO OF"
      [] v = "cefet" -> "curso_graduacao"
      [] v = "joao"  -> "Curso de Graduacao"

CursoValues == {"Eng", "Adm", NA}

\* the rows a table with the columns cols may hold: an identifier in the
\* identifier column, a course or a missing cell in the course column
RowsOver(cols) ==
    {[c \in cols |-> IF c = "respondent_id" THEN id ELSE v] :
        id \in 1..MaxIds, v \in CursoValues}

ColumnSets(v) ==
    {{"respondent_id", CursoCol(v)}, {"respondent_id"}, {CursoCol(v)}}

Tables(v) ==
    UNION {{[columns |-> cols, rows |-> rs] : rs \in SeqsUpTo(RowsOver(cols), MaxRows)} :
             cols \in ColumnSets(v)}

EmptyTable == [columns |-> {}, rows |-> <<>>]

\* df.drop_duplicates(subset=[...], keep='first'): a row goes when an earlier
\* row has the same cells in the columns of subset
DropDuplicates(t, subset) ==
    LET First(i) == \A k \in 1..(i - 1) :
                        \E c \in subset : t.rows[k][c] # t.rows[i][c]
        kept == SelectSeq([i \in 1..Len(t.rows) |-> i], First)
    IN  [columns |-> t.columns, rows |-> [k \in 1..Len(kept) |-> t.rows[kept[k]]]]

\* processar_dados(df) of streamlit_app.py: [df_unique, stats]; the percentage
\* is the exact quotient num / den
ProcessarDadosResult(t) ==
    LET df_unique         == DropDuplicates(t, {"respondent_id"})
        total_linhas      == Len(t.rows)
        total_unicos      == Len(df_unique.rows)
        linhas_duplicadas == total_linhas - total_unicos
    IN  [df_unique |-> df_unique,
         stats |-> [total_linhas      |-> total_linhas,
                    total_unicos      |-> total_unicos,
                    linhas_duplicadas |-> linhas_duplicadas,
                    pct_duplicacao    |->
                        IF total_linhas > 0
                        THEN [num |-> linhas_duplicadas * 100, den |-> total_linhas]
                        ELSE [num |-> 0, den |-> 1]]]

\* process_data(df) of streamlit_app_cefet.py, past its guard
ProcessDataResult(t) ==
    LET df_unique == DropDuplicates(t, {"respondent_id"})
    IN  [df_unique |-> df_unique,
         stats |-> [total_linhas |-> Len(t.rows),
                    total_unicos |-> Len(df_unique.rows),
                    duplicadas   |-> Len(t.rows) - Len(df_unique.rows)]]

\* round(n / d, 0) for n >= 0, d > 0, ties to even
RoundDiv(n, d) ==
    LET q == n \div d
        r == n % d
    IN  IF 2 * r < d THEN q
        ELSE IF 2 * r > d THEN q + 1
        ELSE IF q % 2 = 0 THEN q ELSE q + 1

\* series.value_counts(): the number of rows per value, missing cells left out
ValueCounts(t, col) ==
    LET present == {t.rows[i][col] : i \in DOMAIN t.rows} \ {NA}
    IN  [v \in present |-> Cardinality({i \in DOMAIN t.rows : t.rows[i][col] = v})]

\* the table of all courses (criar_analise_cursos lines 148-150,
\* show_courses_analysis lines 219-221): Quantidade from value_counts, the
\* percentage (Quantidade / len(df) * 100).round(2), kept in hundredths
CourseTable(t, col) ==
    LET counts == ValueCounts(t, col)
    IN  [Quantidade |-> counts,
         Percentual |-> [v \in DOMAIN counts |-> RoundDiv(counts[v] * 10000, Len(t.rows))]]

NoStats == <<>>
NoCursos == [shown |-> "none"]

Init ==
    /\ pc = "loaded"
    /\ variant \in {"app", "cefet", "joao"}
    /\ df \in Tables(variant)
    /\ df_processed = EmptyTable
    /\ stats = NoStats
    /\ cursos = NoCursos
    /\ SlugOff
    /\ MapOff
    /\ RestOff

\* streamlit_app.py main(), lines 347-353: the guard on 'respondent_id', then
\* df_processed, stats = processar_dados(df)
ProcessarDados ==
    /\ pc = "loaded"
    /\ variant = "app"
    /\ IF "respondent_id" \notin df.columns
       THEN /\ pc' = "stopped"
            /\ UNCHANGED <<df_processed, stats>>
       ELSE LET res == ProcessarDadosResult(df)
            IN  /\ df_processed' = res.df_unique
                /\ stats' = res.stats
                /\ pc' = "processed"
    /\ UNCHANGED <<variant, df, cursos, slugVars, mapVars, restVars>>

\* streamlit_app_cefet.py main(), lines 460-463: df_processed, stats =
\* process_data(df), which returns None, None without 'respondent_id'
ProcessData ==
    /\ pc = "loaded"
    /\ variant = "cefet"
    /\ IF "respondent_id" \notin df.columns
       THEN /\ pc' = "stopped"
            /\ UNCHANGED <<df_processed, stats>>
       ELSE LET res == ProcessDataResult(df)
            IN  /\ df_processed' = res.df_unique
                /\ stats' = res.stats
                /\ pc' = "processed"
    /\ UNCHANGED <<variant, df, cursos, slugVars, mapVars, restVars>>

\* JOAO-cefet-main process_data(df): the table is returned as it is, with the
\* name of its identifier column; without one the error is shown and None,
\* None returned
ProcessDataJoao ==
    /\ pc = "loaded"
    /\ variant = "joao"
    /\ IF "respondent_id" \notin df.columns
       THEN /\ pc' = "stopped"
            /\ UNCHANGED <<df_processed, stats>>
       ELSE /\ df_processed' = df
            /\ stats' = [id_col |-> "respondent_id"]
            /\ pc' = "processed"
    /\ UNCHANGED <<variant, df, cursos, slugVars, mapVars, restVars>>

\* streamlit_app.py criar_analise_cursos(df_processed): indexing a column the
\* table lacks raises KeyError, which main() catches and shows
CriarAnaliseCursos ==
    /\ pc = "processed"
    /\ variant = "app"
    /\ IF CursoCol("app") \notin df_processed.columns
       THEN cursos' = [shown |-> "KeyError"]
       ELSE cursos' = [shown |-> "table"] @@ CourseTable(df_processed, CursoCol("app"))
    /\ pc' = "cursos"
    /\ UNCHANGED <<variant, df, df_processed, stats, slugVars, mapVars, restVars>>

\* streamlit_app_cefet.py show_courses_analysis(df_processed, tech_to_label):
\* without the column an information line is shown instead
ShowCoursesAnalysis ==
    /\ pc = "processed"
    /\ variant = "cefet"
    /\ IF CursoCol("cefet") \notin df_processed.columns
       THEN cursos' = [shown |-> "info"]
       ELSE cursos' = [shown |-> "table"] @@ CourseTable(df_processed, CursoCol("cefet"))
    /\ pc' = "cursos"
    /\ UNCHANGED <<variant, df, df_processed, stats, slugVars, mapVars, restVars>>

Next ==
    \/ ProcessarDados
    \/ ProcessData
    \/ ProcessDataJoao
    \/ CriarAnaliseCursos
    \/ ShowCoursesAnalysis

Spec == Init /\ [][Next]_vars

(***************************************************************************)
(* SpecDist: one distinct-respondent distribution drawn by a render        *)
(* function of JOAO-cefet-main/streamlit_app.py from the processed table   *)
(***************************************************************************)
\* the render functions that draw a distribution and the column each looks
\* for (by a substring test on the lower-cased header):
\*   show_detailed_profile          'voce' and 'e' with an acute accent
\*   show_retention_and_evasion     'permanencia'
\*   show_complete_courses          'curso' and 'graduacao'
\*   show_complete_entrepreneurship 'conceito' and 'empreendedorismo'
DistFns == {"show_detailed_profile", "show_retention_and_evasion",
            "show_complete_courses", "show_complete_entrepreneurship"}

DistCol(fn) ==
    CASE fn = "show_detailed_profile"          -> "Voce e"
      [] fn = "show_retention_and_evasion"     -> "Motivos de permanencia"
      [] fn = "show_complete_courses"          -> CursoCol("joao")
      [] fn = "show_complete_entrepreneurship" -> "Conceito de empreendedorismo"

DistValues == {"A", "B", NA}

\* the processed tables: the identifier column and the column of one of the
\* render functions, an option or a missing cell in each row
DistTables ==
    UNION {{[columns |-> {"respondent_id", DistCol(fn)}, rows |-> rs] :
              rs \in SeqsUpTo({[c \in {"respondent_id", DistCol(fn)} |->
                                  IF c = "respondent_id" THEN id ELSE v] :
                                    id \in 1..MaxIds, v \in DistValues}, MaxRows)} :
             fn \in DistFns}

\* faulty variant: the rows of each group are counted
GroupSize(t, col, id_col) ==
    LET present == {t.rows[i][col] : i \in DOMAIN t.rows} \ {NA}
    IN  [v \in present |-> Cardinality({i \in DOMAIN t.rows : t.rows[i][col] = v})]

\* faulty variant: the missing cells form a group of their own
GroupNuniqueKeepingNA(t, col, id_col) ==
    LET present == {t.rows[i][col] : i \in DOMAIN t.rows}
    IN  [v \in present |->
            Cardinality({t.rows[i][id_col] :
                           i \in {k \in DOMAIN t.rows : t.rows[k][col] = v}})]

\* df.groupby(col)[id_col].nunique(): one group per value of col (the rows
\* with a missing cell in col belong to no group), and for each group the
\* number of distinct identifiers on its rows
GroupNunique(t, col, id_col) ==
    LET present == {t.rows[i][col] : i \in DOMAIN t.rows} \ {NA}
    IN  [v \in present |->
            Cardinality({t.rows[i][id_col] :
                           i \in {k \in DOMAIN t.rows : t.rows[k][col] = v}})]

\* df[id_col].nunique(): the number of distinct identifiers (an identifier
\* cell of these tables is never missing)
Nunique(t, id_col) == Cardinality({t.rows[i][id_col] : i \in DOMAIN t.rows})

RECURSIVE SumOver(_, _)
SumOver(f, S) ==
    IF S = {} THEN 0
    ELSE LET x == CHOOSE y \in S : TRUE
         IN  f[x] + SumOver(f, S \ {x})

\* counts['Respondentes'].sum()
SumCounts(counts) == SumOver(counts, DOMAIN counts)

\* (counts['Respondentes'] / total * 100).round(1), kept in tenths
PercentRound1(counts, total) ==
    [v \in DOMAIN counts |-> RoundDiv(counts[v] * 1000, total)]

\* the table a render function draws: the counts per option, the denominator
\* total and the percentages
\*   total = counts['Respondentes'].sum()   (lines 305, 972)
DistOverSum(t, col, id_col) ==
    LET counts == GroupNunique(t, col, id_col)
        total  == SumCounts(counts)
    IN  [shown |-> "table", counts |-> counts, total |-> total,
         pct |-> PercentRound1(counts, total)]

\*   total = df[id_col].nunique()           (lines 400, 1026)
DistOverAll(t, col, id_col) ==
    LET counts == GroupNunique(t, col, id_col)
        total  == Nunique(t, id_col)
    IN  [shown |-> "table", counts |-> counts, total |-> total,
         pct |-> PercentRound1(counts, total)]

NoDist == [shown |-> "none"]

DistInit ==
    /\ dist_pc = "init"
    /\ dist_fn = "none"
    /\ dist_df \in DistTables
    /\ dist_out = NoDist
    /\ SlugOff
    /\ MapOff
    /\ SessOff
    /\ TabOff
    /\ AgeOff
    /\ LikOff
    /\ LateOff

\* show_detailed_profile(df, id_col), lines 300-306 and 820
ShowDetailedProfile ==
    /\ dist_pc = "init"
    /\ dist_fn' = "show_detailed_profile"
    /\ dist_out' = IF DistCol("show_detailed_profile") \in dist_df.columns
                   THEN DistOverSum(dist_df, DistCol("show_detailed_profile"),
                                    "respondent_id")
                   ELSE [shown |-> "warning"]
    /\ dist_pc' = "shown"
    /\ UNCHANGED <<dist_df, slugVars, mapVars, sessVars, tabVars, ageVars, likVars, lateVars>>

\* show_retention_and_evasion(df, id_col), lines 391-402 and 426
ShowRetentionAndEvasion ==
    /\ dist_pc = "init"
    /\ dist_fn' = "show_retention_and_evasion"
    /\ dist_out' = IF DistCol("show_retention_and_evasion") \in dist_df.columns
                   THEN DistOverAll(dist_df, DistCol("show_retention_and_evasion"),
                                    "respondent_id")
                   ELSE [shown |-> "info"]
    /\ dist_pc' = "shown"
    /\ UNCHANGED <<dist_df, slugVars, mapVars, sessVars, tabVars, ageVars, likVars, lateVars>>

\* show_complete_courses(df, id_col), lines 966-974 and 1004
ShowCompleteCourses ==
    /\ dist_pc = "init"
    /\ dist_fn' = "show_complete_courses"
    /\ dist_out' = IF DistCol("show_complete_courses") \in dist_df.columns
                   THEN DistOverSum(dist_df, DistCol("show_complete_courses"),
                                    "respondent_id")
                   ELSE [shown |-> "warning"]
    /\ dist_pc' = "shown"
    /\ UNCHANGED <<dist_df, slugVars, mapVars, sessVars, tabVars, ageVars, likVars, lateVars>>

\* show_complete_entrepreneurship(df, id_col), lines 1014-1028 and 1050
ShowCompleteEntrepreneurship ==
    /\ dist_pc = "init"
    /\ dist_fn' = "show_complete_entrepreneurship"
    /\ dist_out' = IF DistCol("show_complete_entrepreneurship") \in dist_df.columns
                   THEN DistOverAll(dist_df, DistCol("show_complete_entrepreneurship"),
                                    "respondent_id")
                   ELSE [shown |-> "info"]
    /\ dist_pc' = "shown"
    /\ UNCHANGED <<dist_df, slugVars, mapVars, sessVars, tabVars, ageVars, likVars, lateVars>>

DistNext ==
    \/ ShowDetailedProfile
    \/ ShowRetentionAndEvasion
    \/ ShowCompleteCourses
    \/ ShowCompleteEntrepreneurship

SpecDist == DistInit /\ [][DistNext]_vars

(***************************************************************************)
(* Claims about the distinct-respondent distribution                       *)
(***************************************************************************)
\* the column of the table the distribution was drawn from
DistShownCol == DistCol(dist_fn)

DistTableShown == dist_pc = "shown" /\ dist_out.shown = "table"

\* the identifiers with a non-missing cell in col
IdsWithValue(t, col) ==
    {t.rows[i]["respondent_id"] : i \in {k \in DOMAIN t.rows : t.rows[k][col] # NA}}

\* C11: in every distinct-respondent distribution the percentage denominator
\* (total_base) is the number of distinct respondent identifiers that have a
\* non-missing value in the category column, and each percentage is the count
\* over that denominator.
C11_BaseIsRespondentsWithValue ==
    DistTableShown =>
        LET base == Cardinality(IdsWithValue(dist_df, DistShownCol))
        IN  /\ dist_out.total = base
            /\ \A v \in DOMAIN dist_out.counts :
                   dist_out.pct[v] = RoundDiv(dist_out.counts[v] * 1000, base)

DistPairs(t, col) ==
    {<<t.rows[i]["respondent_id"], t.rows[i][col]>> :
        i \in {k \in DOMAIN t.rows : t.rows[k][col] # NA}}

TabRoles == {"idade", "perfil", "fundador", "curso"}

\* one statistic of a render function: the column it reads ("none" when it
\* reads no column of TabRoles), whether it is computed from the respondent
\* identifier, and what the code does when the column is absent:
\*   "KeyError"     df[<column>] is evaluated unguarded
\*   "placeholder"  st.info / st.warning / the metric "N/A" is shown instead
\*   "omitted"      the guard has no else branch: nothing is shown
Stat(stat, role, id, missing) ==
    [stat |-> stat, role |-> role, id |-> id, missing |-> missing]

Header == Stat("header", "none", FALSE, "placeholder")

\* the render functions main() calls, in order, with their statistics in order
Sections(v) ==
    CASE v = "app" ->
          << [fn |-> "criar_metricas_gerais", stats |->
                << Header,
                   Stat("total_unicos",  "none",     TRUE,  "KeyError"),
                   Stat("idade_media",   "idade",    FALSE, "KeyError"),
                   Stat("alunos",        "perfil",   TRUE,  "KeyError"),
                   Stat("fundadores",    "fundador", TRUE,  "KeyError"),
                   Stat("total_cursos",  "curso",    FALSE, "KeyError") >>],
             [fn |-> "criar_analise_cursos", stats |->
                << Header,
                   Stat("curso_counts",  "curso",    FALSE, "KeyError") >>],
             [fn |-> "criar_analise_perfil", stats |->
                << Header,
                   Stat("perfil_counts", "perfil",   FALSE, "KeyError"),
                   Stat("faixa_counts",  "idade",    FALSE, "KeyError") >>],
             [fn |-> "criar_analise_empreendedorismo", stats |->
                << Header,
                   Stat("fundador",      "fundador", FALSE, "omitted") >>],
             [fn |-> "criar_analise_professores",   stats |-> << Header >>],
             [fn |-> "criar_analise_infraestrutura", stats |-> << Header >>] >>
      [] v = "cefet" ->
          << [fn |-> "show_kpis", stats |->
                << Header,
                   Stat("total_unicos",  "none",     TRUE,  "placeholder"),
                   Stat("idade_media",   "idade",    FALSE, "placeholder"),
                   Stat("alunos",        "perfil",   TRUE,  "placeholder"),
                   Stat("fundadores",    "fundador", TRUE,  "placeholder") >>],
             [fn |-> "show_profile_analysis", stats |->
                << Header,
                   Stat("perfil_counts", "perfil",   FALSE, "placeholder"),
                   Stat("faixa_counts",  "idade",    FALSE, "placeholder") >>],
             [fn |-> "show_courses_analysis", stats |->
                << Header,
                   Stat("curso_counts",  "curso",    FALSE, "placeholder") >>],
             [fn |-> "show_entrepreneurship_analysis", stats |->
                << Header,
                   Stat("fundador",      "fundador", FALSE, "placeholder") >>],
             [fn |-> "show_professors_analysis",     stats |-> << Header >>],
             [fn |-> "show_infrastructure_analysis", stats |-> << Header >>],
             [fn |-> "show_retention_analysis",      stats |-> << Header >>] >>
      [] v = "joao" ->
          << [fn |-> "show_complete_overview", stats |->
                << Header,
                   Stat("total_respondentes", "none", TRUE, "placeholder"),
                   Stat("idade_media",   "idade",    FALSE, "placeholder"),
                   Stat("total_cursos",  "curso",    FALSE, "placeholder"),
                   Stat("fundadores",    "fundador", TRUE,  "placeholder") >>],
             [fn |-> "show_detailed_profile", stats |->
                << Header,
                   Stat("perfil",        "perfil",   TRUE,  "placeholder"),
                   Stat("faixa_etaria",  "idade",    TRUE,  "placeholder") >>],
             [fn |-> "show_complete_courses", stats |->
                << Header,
                   Stat("cursos",        "curso",    TRUE,  "placeholder") >>],
             [fn |-> "show_complete_entrepreneurship", stats |->
                << Header,
                   Stat("fundador",      "fundador", TRUE,  "placeholder") >>],
             [fn |-> "show_student_characteristics",  stats |-> << Header >>],
             [fn |-> "show_complete_professors",      stats |-> << Header >>],
             [fn |-> "show_complete_infrastructure",  stats |-> << Header >>],
             [fn |-> "show_methodology",              stats |-> << Header >>],
             [fn |-> "show_curriculum_matrix",        stats |-> << Header >>],
             [fn |-> "show_enrollment_influence",     stats |-> << Header >>],
             [fn |-> "show_retention_and_evasion",    stats |-> << Header >>] >>

\* a render function run over a table with the columns cols: its statistics
\* in order, until one raises
RECURSIVE RenderStats(_, _, _, _)
RenderStats(sec, i, cols, view) ==
    IF i > Len(sec.stats) THEN [view |-> view, raised |-> FALSE]
    ELSE LET st  == sec.stats[i]
             key == <<sec.fn, st.stat>>
         IN  IF st.role = "none" \/ st.role \in cols
             THEN RenderStats(sec, i + 1, cols, Put(view, key, "chart"))
             ELSE IF st.missing = "KeyError"
             THEN [view |-> view, raised |-> TRUE]
             ELSE RenderStats(sec, i + 1, cols, Put(view, key, st.missing))

TabInit ==
    /\ tab_pc = "loaded"
    /\ tab_variant \in {"app", "cefet", "joao"}
    /\ tab_cols \in SUBSET (TabRoles \cup {"respondent_id"})
    /\ tab_next = 1
    /\ tab_view = EmptyDict
    /\ tab_error = ""
    /\ tab_download = FALSE
    /\ SlugOff
    /\ MapOff
    /\ SessOff
    /\ DistOff
    /\ AgeOff
    /\ LikOff
    /\ LateOff

\* main() up to the tabs: without the identifier column the error is shown
\* and main() returns (streamlit_app.py lines 348-350, streamlit_app_cefet.py
\* lines 101-103 and 462-463, JOAO-cefet-main lines 524-526 and 660)
TabProcessData ==
    /\ tab_pc = "loaded"
    /\ IF "respondent_id" \in tab_cols
       THEN /\ tab_pc' = "tabs"
            /\ UNCHANGED tab_error
       ELSE /\ tab_pc' = "stopped"
            /\ tab_error' = "respondent_id"
    /\ UNCHANGED <<tab_variant, tab_cols, tab_next, tab_view, tab_download,
                   slugVars, mapVars, sessVars, distVars, ageVars, likVars, lateVars>>

\* the next render function of main(); an exception leaves the try block and
\* is shown by the except clause (streamlit_app.py lines 404-406)
RenderTab ==
    /\ tab_pc = "tabs"
    /\ tab_next <= Len(Sections(tab_variant))
    /\ LET res == RenderStats(Sections(tab_variant)[tab_next], 1, tab_cols, tab_view)
       IN  /\ tab_view' = res.view
           /\ IF res.raised
              THEN /\ tab_pc' = "error"
                   /\ tab_error' = "KeyError"
                   /\ UNCHANGED tab_next
              ELSE /\ tab_next' = tab_next + 1
                   /\ UNCHANGED <<tab_pc, tab_error>>
    /\ UNCHANGED <<tab_variant, tab_cols, tab_download,
                   slugVars, mapVars, sessVars, distVars, ageVars, likVars, lateVars>>

\* the download section after the tabs
TabDownload ==
    /\ tab_pc = "tabs"
    /\ tab_next > Len(Sections(tab_variant))
    /\ tab_download' = TRUE
    /\ tab_pc' = "done"
    /\ UNCHANGED <<tab_variant, tab_cols, tab_next, tab_view, tab_error,
                   slugVars, mapVars, sessVars, distVars, ageVars, likVars, lateVars>>

TabNext == TabProcessData \/ RenderTab \/ TabDownload

SpecTabs == TabInit /\ [][TabNext]_vars

(***************************************************************************)
(* Claims about the errors of a session                                    *)
(***************************************************************************)
\* the statistics of the dashboard, as <<render function, statistic record>>
AllStats(v) ==
    UNION {{<<Sections(v)[k].fn, Sections(v)[k].stats[i]>> :
              i \in DOMAIN Sections(v)[k].stats} : k \in DOMAIN Sections(v)}

Shows(fn, st) ==
    IF <<fn, st.stat>> \in DOMAIN tab_view THEN tab_view[<<fn, st.stat>>] ELSE "nothing"

TabFinished == tab_pc \in {"done", "stopped", "error"}

\* C14: when the table has no respondent-identifier column, the error is
\* reported and only the statistics that need the identifier are disabled:
\* every statistic that is not computed from the identifier is still rendered
\* (a chart, or its placeholder when its own column is absent).
C14_OnlyIdStatisticsDisabled ==
    (TabFinished /\ "respondent_id" \notin tab_cols) =>
        /\ tab_error = "respondent_id"
        /\ \A p \in AllStats(tab_variant) :
               ~p[2].id => Shows(p[1], p[2]) \in {"chart", "placeholder"}

\* C15: when a grouping column is absent from the table, only the statistics
\* that read it are replaced by an informational placeholder; every other
\* statistic of every render function of every variant is still rendered.
C15_OnlyThatStatisticReplaced ==
    (TabFinished /\ "respondent_id" \in tab_cols) =>
        \A p \in AllStats(tab_variant) :
            Shows(p[1], p[2]) =
                IF p[2].role = "none" \/ p[2].role \in tab_cols
                THEN "chart" ELSE "placeholder"

(***************************************************************************)
(* SpecAge: the age distribution of the profile tab of each dashboard      *)
(***************************************************************************)
\* the age column each dashboard reads: 'IDADE' (streamlit_app.py), 'idade'
\* (streamlit_app_cefet.py), the first column whose lower-cased header
\* contains 'idade' (JOAO-cefet-main)
IdadeCol(v) ==
    CASE v = "app"   -> "IDADE"
      [] v = "cefet" -> "idade"
      [] v = "joao"  -> "Idade"

\* the labels of pd.cut (written with an acute accent in the source)
AgeLabels(v) ==
    IF v = "app"
    THEN <<"Ate 19 anos", "20-25 anos", "26-30 anos", "Acima de 30 anos">>
    ELSE <<"Ate 19", "20-25", "26-30", "Acima de 30">>

\* the edges of pd.cut
AgeBins == <<0, 19, 25, 30, 100>>

\* the ages of the cells: around every edge of the bins
AgeNumbers == {0, 1, 19, 20, 25, 26, 30, 31, 100, 101}

T_abc == <<"a", "b", "c">>
T_22  == <<"2", "2">>

\* a cell of the age column: a number, a text, or an empty cell
AgeCells == {PyInt(n) : n \in AgeNumbers} \cup {PyStr(T_abc), PyStr(T_22), NaN}

AgeRow(v, id, cell) ==
    [c \in {"respondent_id", IdadeCol(v)} |-> IF c = "respondent_id" THEN id ELSE cell]

AgeTablesOver(v, ids, cells, n) ==
    {[columns |-> {"respondent_id", IdadeCol(v)}, rows |-> rs] :
        rs \in SeqsUpTo({AgeRow(v, id, cell) : id \in ids, cell \in cells}, n)}

\* four respondents with the ages 17, 22, 'abc' and 45
AgeScenario(v) ==
    [columns |-> {"respondent_id", IdadeCol(v)},
     rows    |-> <<AgeRow(v, 1, PyInt(17)), AgeRow(v, 2, PyInt(22)),
                   AgeRow(v, 3, PyStr(T_abc)), AgeRow(v, 4, PyInt(45))>>]

\* the tables read from the workbook
AgeRead(v) == AgeTablesOver(v, 1..MaxIds, AgeCells, MaxAgeRows) \cup {AgeScenario(v)}

\* the processed table: streamlit_app.py and streamlit_app_cefet.py hand over
\* the table without its repeated identifiers, JOAO-cefet-main the table as read
AgeProcess(v, t) ==
    IF v = "joao" THEN t ELSE DropDuplicates(t, {"respondent_id"})

DigitValue(ch) == CHOOSE d \in 0..9 : DigitChar(d) = ch

RECURSIVE DigitsValue(_)
DigitsValue(s) ==
    IF s = <<>> THEN 0
    ELSE 10 * DigitsValue(SubSeq(s, 1, Len(s) - 1)) + DigitValue(s[Len(s)])

\* pd.to_numeric(cell, errors='coerce'): a number stays, a text of digits is
\* read as that number, any other text and the empty cell become NaN
ToNumeric(cell) ==
    CASE cell.t = "int" -> cell
      [] cell.t = "str" -> IF cell.v # <<>> /\ \A i \in DOMAIN cell.v : cell.v[i] \in Digits
                           THEN PyInt(DigitsValue(cell.v))
                           ELSE NaN
      [] OTHER          -> NaN

\* pd.cut(x, bins=[0, 19, 25, 30, 100], labels=...) of one number: the index
\* of the interval (0,19], (19,25], (25,30], (30,100] that holds it, 0 (NaN)
\* when none does or x is NaN
AgeCut(x) ==
    IF x.t # "int" THEN 0
    ELSE IF x.v <= AgeBins[1] \/ x.v > AgeBins[5] THEN 0
    ELSE IF x.v <= AgeBins[2] THEN 1
    ELSE IF x.v <= AgeBins[3] THEN 2
    ELSE IF x.v <= AgeBins[4] THEN 3
    ELSE 4

\* pd.cut over a column that holds a text compares a text with a number
CutRaises(t, col) == \E i \in DOMAIN t.rows : t.rows[i][col].t = "str"

\* df['Faixa Etaria'].value_counts().sort_index() on the categorical column:
\* every category in order with the number of its rows
FaixaValueCounts(v, t) ==
    [b \in 1..4 |->
        [Faixa |-> AgeLabels(v)[b],
         n     |-> Cardinality({i \in DOMAIN t.rows :
                                  AgeCut(t.rows[i][IdadeCol(v)]) = b})]]

\* df_temp.groupby('faixa_etaria')[id_col].nunique().reset_index() after
\* pd.to_numeric and pd.cut: per category the number of distinct identifiers;
\* with observed=True the categories without a row are left out; then
\* total = counts['Respondentes'].sum() and the percentage .round(1), in
\* tenths, NaN for 0 / 0
FaixaGroupNunique(v, t, observed) ==
    LET n(b)  == Cardinality({t.rows[i]["respondent_id"] :
                    i \in {k \in DOMAIN t.rows :
                             AgeCut(ToNumeric(t.rows[k][IdadeCol(v)])) = b}})
        kept  == SelectSeq(<<1, 2, 3, 4>>,
                           LAMBDA b : ~observed \/
                               \E k \in DOMAIN t.rows :
                                   AgeCut(ToNumeric(t.rows[k][IdadeCol(v)])) = b)
        total == n(1) + n(2) + n(3) + n(4)
    IN  [j \in 1..Len(kept) |->
            [Faixa        |-> AgeLabels(v)[kept[j]],
             Respondentes |-> n(kept[j]),
             pct          |-> IF total = 0 THEN NaN
                              ELSE PyInt(RoundDiv(n(kept[j]) * 1000, total))]]

\* df['Faixa Etaria'] = pd.cut(df['IDADE'], ...): the table itself gets a
\* column with the label of each row, NaN where the age is in no interval
AssignFaixaEtaria(v, t) ==
    [columns |-> t.columns \cup {"Faixa Etaria"},
     rows    |-> [i \in DOMAIN t.rows |->
                    [c \in t.columns \cup {"Faixa Etaria"} |->
                        IF c # "Faixa Etaria" THEN t.rows[i][c]
                        ELSE IF AgeCut(t.rows[i][IdadeCol(v)]) = 0 THEN NaN
                        ELSE [t |-> "category",
                              v |-> AgeLabels(v)[AgeCut(t.rows[i][IdadeCol(v)])]]]]]

NoAges == [shown |-> "none"]

AgeInit ==
    /\ age_pc = "init"
    /\ age_variant \in {"app", "cefet", "joao"}
    /\ age_observed \in IF age_variant = "joao" THEN BOOLEAN ELSE {FALSE}
    /\ age_raw \in AgeRead(age_variant)
    /\ age_df = AgeProcess(age_variant, age_raw)
    /\ age_out = NoAges
    /\ SlugOff
    /\ MapOff
    /\ SessOff
    /\ DistOff
    /\ TabOff
    /\ LikOff
    /\ LateOff

\* streamlit_app.py criar_analise_perfil(df), lines 108-124
CriarAnalisePerfil ==
    /\ age_pc = "init"
    /\ age_variant = "app"
    /\ age_out' = IF CutRaises(age_df, IdadeCol("app"))
                  THEN [shown |-> "TypeError"]
                  ELSE [shown |-> "table", rows |-> FaixaValueCounts("app", age_df)]
    /\ age_df' = IF CutRaises(age_df, IdadeCol("app"))
                 THEN age_df
                 ELSE AssignFaixaEtaria("app", age_df)
    /\ age_pc' = "shown"
    /\ UNCHANGED <<age_variant, age_observed, age_raw,
                   slugVars, mapVars, sessVars, distVars, tabVars, likVars, lateVars>>

\* streamlit_app_cefet.py show_profile_analysis(df, tech_to_label), lines 181-199
ShowProfileAnalysis ==
    /\ age_pc = "init"
    /\ age_variant = "cefet"
    /\ age_out' = IF CutRaises(age_df, IdadeCol("cefet"))
                  THEN [shown |-> "TypeError"]
                  ELSE [shown |-> "table", rows |-> FaixaValueCounts("cefet", age_df)]
    /\ age_pc' = "shown"
    /\ UNCHANGED <<age_variant, age_observed, age_raw, age_df,
                   slugVars, mapVars, sessVars, distVars, tabVars, likVars, lateVars>>

\* JOAO-cefet-main show_detailed_profile(df, id_col), the age half, lines 822-861
ShowDetailedProfileIdade ==
    /\ age_pc = "init"
    /\ age_variant = "joao"
    /\ age_out' = [shown |-> "table",
                   rows  |-> FaixaGroupNunique("joao", age_df, age_observed)]
    /\ age_pc' = "shown"
    /\ UNCHANGED <<age_variant, age_observed, age_raw, age_df,
                   slugVars, mapVars, sessVars, distVars, tabVars, likVars, lateVars>>

AgeNext == CriarAnalisePerfil \/ ShowProfileAnalysis \/ ShowDetailedProfileIdade

SpecAge == AgeInit /\ [][AgeNext]_vars

(***************************************************************************)
(* Claims about the age distribution                                       *)
(***************************************************************************)
\* the count of the j-th row of the distribution drawn
AgeCount(j) ==
    IF age_variant = "joao" THEN age_out.rows[j].Respondentes ELSE age_out.rows[j].n

\* C16: the age distribution always has exactly four rows, in the fixed order
\* <=19, 20-25, 26-30, 30+, for every input table, also when some or all of
\* the buckets have no respondent.
C16_AlwaysFourRowsInOrder ==
    age_pc = "shown" =>
        /\ age_out.shown = "table"
        /\ Len(age_out.rows) = 4
        /\ \A b \in 1..4 : age_out.rows[b].Faixa = AgeLabels(age_variant)[b]

\* the bucket of an age by the rule <=19, 20..25, 26..30, >30 without cut-off
RuleBucket(n) ==
    IF n <= 19 THEN 1 ELSE IF n <= 25 THEN 2 ELSE IF n <= 30 THEN 3 ELSE 4

\* the respondents whose age parses as a number and falls in bucket b by the rule
RuleRespondents(b) ==
    {age_df.rows[i]["respondent_id"] :
        i \in {k \in DOMAIN age_df.rows :
                 LET x == ToNumeric(age_df.rows[k][IdadeCol(age_variant)])
                 IN  x.t = "int" /\ RuleBucket(x.v) = b}}

\* C17: every age that parses as a number is counted in exactly one bucket,
\* <=19, 20..25, 26..30 or >30 with no upper or lower cut-off, and an age that
\* does not parse is left out: the count of each bucket is the number of
\* respondents whose parsed age falls in it.
C17_EveryParsedAgeInItsBucket ==
    age_pc = "shown" =>
        /\ age_out.shown = "table"
        /\ \A b \in 1..4 :
               \E j \in DOMAIN age_out.rows :
                   /\ age_out.rows[j].Faixa = AgeLabels(age_variant)[b]
                   /\ AgeCount(j) = Cardinality(RuleRespondents(b))

\* C23: every aggregation and render function leaves its input table as it
\* was: after the call the table has the same columns and the same cells as
\* before it.
C23_RenderLeavesTableUnchanged == [][age_df' = age_df]_vars

\* the respondents of the table as read with, on some row, an age in the
\* b-th interval of pd.cut
RawRespondents(b) ==
    {age_raw.rows[i]["respondent_id"] :
        i \in {k \in DOMAIN age_raw.rows :
                 AgeCut(ToNumeric(age_raw.rows[k][IdadeCol(age_variant)])) = b}}

\* C29: the age distribution counts distinct respondents, never rows: a
\* respondent on several rows with the same age adds exactly 1 to the bucket
\* of that age, and no row of the respondent is discarded from the table
\* before the count, so the count of a bucket is the number of respondents of
\* the table as read that have an age of the bucket.
C29_AgeCountsDistinctRespondents ==
    (age_pc = "shown" /\ age_out.shown = "table") =>
        \A j \in DOMAIN age_out.rows : \A b \in 1..4 :
            age_out.rows[j].Faixa = AgeLabels(age_variant)[b] =>
                AgeCount(j) = Cardinality(RawRespondents(b))

(***************************************************************************)
(* SpecLikert: likert_to_index of JOAO-cefet-main/streamlit_app.py over    *)
(* one column                                                              *)
(***************************************************************************)
\* the cells are written without their accents: "(a~)" stands for a with a
\* tilde, "(a')" for a with an acute accent
LIKERT_ORDER == <<"1 Muito ruim", "2 Ruim", "3 Razo(a')vel", "4 Boa", "5 Excelente">>

LIKERT_NEUTROS == {"N(a~)o observado", "Nao observado",
                   "N(a~)o se aplica", "Nao se aplica"}

LIKERT_TO_INDEX ==
    [r \in Range(LIKERT_ORDER) |->
        CASE r = "1 Muito ruim"  -> 20
          [] r = "2 Ruim"        -> 40
          [] r = "3 Razo(a')vel" -> 60
          [] r = "4 Boa"         -> 80
          [] r = "5 Excelente"   -> 100]

\* a text that is neither a rating nor a neutral marker
Unrecognized == {"Talvez"}

\* other ways a workbook spells the rating 5: the bare number, the label
\* alone, the number and the label around a dash
OtherSpellings == {"5", "excelente", "5 - Excelente"}

\* the cells of a Likert column; NA is the empty cell pd.read_excel returns
LikertCells ==
    Range(LIKERT_ORDER) \cup LIKERT_NEUTROS \cup Unrecognized \cup OtherSpellings
        \cup {NA}

LikertSeries == SeqsUpTo(LikertCells, MaxSeries)

\* series[~series.isin(LIKERT_NEUTROS) & series.notna()]
ValidData(series) ==
    SelectSeq(series, LAMBDA c : c \notin LIKERT_NEUTROS /\ c # NA)

\* valid_data.map(LIKERT_TO_INDEX): a cell that is no key of the dict is NaN
Mapped(valid_data) ==
    [i \in DOMAIN valid_data |->
        IF valid_data[i] \in DOMAIN LIKERT_TO_INDEX
        THEN PyInt(LIKERT_TO_INDEX[valid_data[i]]) ELSE NaN]

RECURSIVE SumSeq(_)
SumSeq(xs) == IF xs = <<>> THEN 0 ELSE xs[1].v + SumSeq(Tail(xs))

\* faulty variant: the NaN entries are counted in the denominator
MeanOverAll(mapped) ==
    LET nums == SelectSeq(mapped, LAMBDA x : x.t = "int")
    IN  IF nums = <<>> THEN NaN
        ELSE [t |-> "mean", sum |-> SumSeq(nums), n |-> Len(mapped)]

\* mapped.mean(): the mean of the entries that are not NaN, as the fraction
\* sum / n; NaN when there is none
Mean(mapped) ==
    LET nums == SelectSeq(mapped, LAMBDA x : x.t = "int")
    IN  IF nums = <<>> THEN NaN
        ELSE [t |-> "mean", sum |-> SumSeq(nums), n |-> Len(nums)]

\* faulty variant: 0 is returned when no cell is left
LikertToIndexZero(series) ==
    IF Len(ValidData(series)) = 0 THEN [t |-> "mean", sum |-> 0, n |-> 1]
    ELSE Mean(Mapped(ValidData(series)))

\* likert_to_index(series, df, id_col)
LikertToIndex(series) ==
    IF Len(ValidData(series)) = 0 THEN None
    ELSE Mean(Mapped(ValidData(series)))

LikInit ==
    /\ lik_pc = "init"
    /\ lik_series \in LikertSeries
    /\ lik_out = None
    /\ lik_listed = FALSE
    /\ SlugOff
    /\ MapOff
    /\ SessOff
    /\ DistOff
    /\ TabOff
    /\ AgeOff
    /\ LateOff

\* the body of the loop of show_enrollment_influence (lines 343-346) and of
\* the other Likert tabs: idx = likert_to_index(df[col], df, id_col), and
\* indices[label] = idx if idx is not None
LikertToIndexCall ==
    /\ lik_pc = "init"
    /\ lik_out' = LikertToIndex(lik_series)
    /\ lik_listed' = (LikertToIndex(lik_series) # None)
    /\ lik_pc' = "called"
    /\ UNCHANGED <<lik_series, slugVars, mapVars, sessVars, distVars, tabVars, ageVars,
                   lateVars>>

LikNext == LikertToIndexCall

SpecLikert == LikInit /\ [][LikNext]_vars

(***************************************************************************)
(* Claims about the Likert index                                           *)
(***************************************************************************)
\* the index the fixed scale gives a rating: 1 -> 20, 2 -> 40, ..., 5 -> 100
ScaleIndex(c) == 20 * (CHOOSE k \in 1..5 : LIKERT_ORDER[k] = c)

IsRating(c) == c \in Range(LIKERT_ORDER)

\* the positions of the series that hold one of the five ratings
RatingCells == {i \in DOMAIN lik_series : IsRating(lik_series[i])}

RECURSIVE ScaleSum(_)
ScaleSum(S) ==
    IF S = {} THEN 0
    ELSE LET i == CHOOSE j \in S : TRUE
         IN  ScaleIndex(lik_series[i]) + ScaleSum(S \ {i})

\* C18: the Likert index of a series is the arithmetic mean, over the valid
\* responses only, of the index the scale 1->20, 2->40, 3->60, 4->80, 5->100
\* gives each rating; two ratings of 5 give 100, a rating of 1 with a rating
\* of 5 gives 60.
C18_IndexIsMeanOfScale ==
    (lik_pc = "called" /\ RatingCells # {}) =>
        /\ lik_out.t = "mean"
        /\ lik_out.sum = ScaleSum(RatingCells)
        /\ lik_out.n = Cardinality(RatingCells)
        /\ lik_series = <<"5 Excelente", "5 Excelente">>
              => lik_out.sum = 100 * lik_out.n
        /\ lik_series = <<"1 Muito ruim", "5 Excelente">>
              => lik_out.sum = 60 * lik_out.n

\* a rating of 1 and a rating of 5 next to a cell that is no valid response:
\* the index is 120 / 2 = 60
C18_Witness ==
    /\ lik_pc = "called"
    /\ Len(lik_series) = 3
    /\ \E i, j, k \in DOMAIN lik_series :
          /\ lik_series[i] = "1 Muito ruim"
          /\ lik_series[j] = "5 Excelente"
          /\ ~IsRating(lik_series[k])
    /\ lik_out = [t |-> "mean", sum |-> 120, n |-> 2]

\* C19: the Likert index of a series that holds only neutral markers ("not
\* observed", "not applicable") or empty cells is null, never 0.
C19_OnlyNeutralsGiveNull ==
    (lik_pc = "called" /\ \A i \in DOMAIN lik_series :
                              lik_series[i] \in LIKERT_NEUTROS \cup {NA}) =>
        /\ lik_out = None
        /\ ~lik_listed

\* a neutral marker and an empty cell, no other cell: null was returned
C19_Witness ==
    /\ lik_pc = "called"
    /\ \E i, j \in DOMAIN lik_series :
          /\ lik_series[i] \in LIKERT_NEUTROS
          /\ lik_series[j] = NA
    /\ \A i \in DOMAIN lik_series : lik_series[i] \in LIKERT_NEUTROS \cup {NA}
    /\ lik_out = None

\* C20: a non-neutral value that matches none of the five ratings is left out
\* of the sum and of the denominator of the index and contributes no default
\* value; when no value of the series is a valid rating the index is null.
C20_UnrecognizedExcludedElseNull ==
    lik_pc = "called" =>
        IF RatingCells # {}
        THEN /\ lik_out.t = "mean"
             /\ lik_out.sum = ScaleSum(RatingCells)
             /\ lik_out.n = Cardinality(RatingCells)
        ELSE /\ lik_out = None
             /\ ~lik_listed

(***************************************************************************)
(* The Likert matrix: create_likert_matrix of JOAO-cefet-main              *)
(***************************************************************************)
\* the questions dict a Likert tab hands over (line 1209): display name ->
\* column, in the order of the dict
MxQuestions == <<[display |-> "Pergunta 1", col |-> "Q1"],
                 [display |-> "Pergunta 2", col |-> "Q2"]>>

\* the cells of the two question columns: ratings, neutral markers as the
\* workbook may spell them, a text that is no rating, the empty cell
MxCells(col) ==
    IF col = "Q1"
    THEN {"1 Muito ruim", "5 Excelente", "Nao observado", "NAO OBSERVADO",
          "Talvez", NA}
    ELSE {"4 Boa", "Nao se aplica", NA}

MxColumnSets == {{"respondent_id", "Q1"}, {"respondent_id", "Q1", "Q2"}}

MxRowsOver(cs) ==
    {[c \in cs |-> IF c = "respondent_id" THEN id
                   ELSE IF c = "Q1" THEN q1 ELSE q2] :
        id \in 1..MaxIds, q1 \in MxCells("Q1"),
        q2 \in IF "Q2" \in cs THEN MxCells("Q2") ELSE {NA}}

\* the tables of n rows over the columns cs
MxTables(cs, n) ==
    {[columns |-> cs, rows |-> rs] : rs \in [1..n -> MxRowsOver(cs)]}

\* df[~df[col].isin(LIKERT_NEUTROS)]: isin is False on an empty cell, so the
\* rows with an empty cell stay
ValidResponses(t, col) ==
    [columns |-> t.columns,
     rows |-> SelectSeq(t.rows, LAMBDA r : r[col] \notin LIKERT_NEUTROS)]

\* .reindex(LIKERT_ORDER).fillna(0): the five ratings, 0 for a rating that
\* has no group; a group that is no rating is dropped
ReindexLikert(counts) ==
    [v \in Range(LIKERT_ORDER) |-> IF v \in DOMAIN counts THEN counts[v] ELSE 0]

\* the body of the loop for one question whose column is in the table
MatrixRows(t, q, id_col) ==
    LET valid_responses == ValidResponses(t, q.col)
        counts == ReindexLikert(GroupNunique(valid_responses, q.col, id_col))
        total  == Nunique(valid_responses, id_col)
    IN  IF total > 0
        THEN [k \in 1..Len(LIKERT_ORDER) |->
                [Pergunta   |-> q.display,
                 Resposta   |-> LIKERT_ORDER[k],
                 Contagem   |-> counts[LIKERT_ORDER[k]],
                 Percentual |-> RoundDiv(counts[LIKERT_ORDER[k]] * 1000, total),
                 Total      |-> total]]
        ELSE <<>>

\* create_likert_matrix(df, questions, id_col): the rows of the returned
\* table, Percentual in tenths of a percent
RECURSIVE CreateLikertMatrixRows(_, _, _)
CreateLikertMatrixRows(t, questions, id_col) ==
    IF questions = <<>> THEN <<>>
    ELSE LET q == Head(questions)
         IN  (IF q.col \notin t.columns THEN <<>> ELSE MatrixRows(t, q, id_col))
             \o CreateLikertMatrixRows(t, Tail(questions), id_col)

MxInit ==
    /\ mx_pc = "init"
    /\ \E cs \in MxColumnSets : \E n \in 0..MaxMxRows : mx_df \in MxTables(cs, n)
    /\ mx_out = <<>>
    /\ SlugOff
    /\ MapOff
    /\ SessOff
    /\ DistOff
    /\ TabOff
    /\ AgeOff
    /\ LikOff
    /\ KpiOff
    /\ IdOff
    /\ ExpOff

\* matrix_data = create_likert_matrix(df, questions, id_col) (line 1210)
CreateLikertMatrix ==
    /\ mx_pc = "init"
    /\ mx_out' = CreateLikertMatrixRows(mx_df, MxQuestions, "respondent_id")
    /\ mx_pc' = "created"
    /\ UNCHANGED <<mx_df, slugVars, mapVars, sessVars, distVars, tabVars, ageVars,
                   likVars, kpiVars, idVars, expVars>>

MxNext == CreateLikertMatrix

SpecMatrix == MxInit /\ [][MxNext]_vars

\* the rating a cell stands for: the digit 1 to 5 it starts with, else the
\* rating whose label ("muito ruim" .. "excelente") its text is, else 0
LeadingDigitOrLabel(c) ==
    CASE c \in {"1 Muito ruim"}  -> 1
      [] c \in {"2 Ruim"}        -> 2
      [] c \in {"3 Razo(a')vel"} -> 3
      [] c \in {"4 Boa"}         -> 4
      [] c \in {"5 Excelente", "5", "5 - Excelente", "excelente"} -> 5
      [] OTHER -> 0

\* the positions of the series whose cell stands for a rating
ParsedCells == {i \in DOMAIN lik_series : LeadingDigitOrLabel(lik_series[i]) > 0}

RECURSIVE ParsedSum(_)
ParsedSum(S) ==
    IF S = {} THEN 0
    ELSE LET i == CHOOSE j \in S : TRUE
         IN  20 * LeadingDigitOrLabel(lik_series[i]) + ParsedSum(S \ {i})

\* C27: a non-neutral cell is the rating n when it starts with the digit n
\* (the bare number 5 included) or, failing that, when its text without case
\* and accents is the label of n; such a cell adds 20 * n to the sum of the
\* Likert index and 1 to its denominator.
C27_LeadingDigitOrLabelParsed ==
    (lik_pc = "called" /\ ParsedCells # {}) =>
        /\ lik_out.t = "mean"
        /\ lik_out.sum = ParsedSum(ParsedCells)
        /\ lik_out.n = Cardinality(ParsedCells)

(***************************************************************************)
(* Claims about the Likert matrix                                          *)
(***************************************************************************)
\* the questions whose column is in the table
MxAsked == {k \in DOMAIN MxQuestions : MxQuestions[k].col \in mx_df.columns}

\* the rows of the matrix for one question, in order
MxRowsOf(k) == SelectSeq(mx_out, LAMBDA r : r.Pergunta = MxQuestions[k].display)

\* the respondents that gave question k one of the five ratings
MxRaters(k) ==
    {mx_df.rows[i]["respondent_id"] :
        i \in {j \in DOMAIN mx_df.rows :
                 IsRating(mx_df.rows[j][MxQuestions[k].col])}}

\* C21: every question of the matrix has exactly five rows, the ratings 1 to
\* 5 in order, a rating with count 0 included; a question with no valid
\* response has its five rows too, each with percentage 0.
C21_FiveRowsPerQuestion ==
    mx_pc = "created" =>
        \A k \in MxAsked :
            /\ Len(MxRowsOf(k)) = 5
            /\ \A n \in 1..5 : MxRowsOf(k)[n].Resposta = LIKERT_ORDER[n]
            /\ MxRaters(k) = {} => \A n \in 1..5 : MxRowsOf(k)[n].Percentual = 0

RECURSIVE SumPercentual(_)
SumPercentual(rows) ==
    IF rows = <<>> THEN 0 ELSE Head(rows).Percentual + SumPercentual(Tail(rows))

\* C22: for every question with at least one valid response the five
\* percentages sum to 100.0 within 0.1, whatever the table holds (empty
\* cells, texts that are no rating, respondents on several rows).
C22_PercentagesSumTo100 ==
    mx_pc = "created" =>
        \A k \in MxAsked :
            MxRaters(k) # {} =>
                /\ MxRowsOf(k) # <<>>
                /\ SumPercentual(MxRowsOf(k)) \in 999..1001

\* the respondents with a value in the column of question k that is neither
\* empty nor one of the neutral markers
MxAnswered(k) ==
    {mx_df.rows[i]["respondent_id"] :
        i \in {j \in DOMAIN mx_df.rows :
                 mx_df.rows[j][MxQuestions[k].col] \notin LIKERT_NEUTROS \cup {NA}}}

\* C28: the denominator of a question of the matrix is the number of
\* distinct respondents with a non-neutral, non-missing value in that
\* question's own column; a row whose cell is empty is not in it, and the
\* columns of the other questions have no part in it.
C28_DenominatorIsOwnColumnAnswers ==
    mx_pc = "created" =>
        \A k \in MxAsked :
            /\ \A n \in DOMAIN MxRowsOf(k) :
                  MxRowsOf(k)[n].Total = Cardinality(MxAnswered(k))
            /\ MxAnswered(k) # {} => MxRowsOf(k) # <<>>

\* a neutral marker without its case and accents, any other cell as it is
NeutralKey(c) ==
    CASE c \in {"N(a~)o observado", "Nao observado", "NAO OBSERVADO"} -> "nao observado"
      [] c \in {"N(a~)o se aplica", "Nao se aplica", "NAO SE APLICA"}   -> "nao se aplica"
      [] OTHER -> c

\* the cell with a case or accent variant of a neutral marker respelled as
\* the marker itself
SpellCanonical(c) ==
    IF \E n \in LIKERT_NEUTROS : NeutralKey(n) = NeutralKey(c)
    THEN CHOOSE n \in LIKERT_NEUTROS : NeutralKey(n) = NeutralKey(c)
    ELSE c

MxRespelled ==
    [columns |-> mx_df.columns,
     rows |-> [i \in DOMAIN mx_df.rows |->
                 [c \in mx_df.columns |->
                     IF c = "respondent_id" THEN mx_df.rows[i][c]
                     ELSE SpellCanonical(mx_df.rows[i][c])]]]

\* C26: a cell is a neutral marker whatever its letter case and accents:
\* every case or accent variant of "not observed" / "not applicable" is left
\* out of the denominator of the Likert matrix (and of the Likert index)
\* exactly like the canonical spelling, so the matrix of a table is the
\* matrix of the same table with the variants respelled canonically.
C26_NeutralWhateverCaseAndAccents ==
    mx_pc = "created" =>
        mx_out = CreateLikertMatrixRows(MxRespelled, MxQuestions, "respondent_id")

(***************************************************************************)
(* SpecExport: main() of each dashboard from the workbook to the download  *)
(***************************************************************************)
\* the headers of the workbook, in either order (the other columns the tabs
\* read are present and only read)
ExpColumns(v) == {<<"respondent_id", IdadeCol(v)>>, <<IdadeCol(v), "respondent_id">>}

ExpCells == {PyInt(17), PyInt(45), NaN}

\* the workbooks: at least one row, numbers or empty cells in the age column
ExpTables(v) ==
    {[columns |-> cs, rows |-> rs] :
        cs \in ExpColumns(v),
        rs \in SeqsUpTo({AgeRow(v, id, cell) : id \in 1..MaxIds, cell \in ExpCells},
                        MaxExpRows) \ {<<>>}}

\* df_processed after the tab "Perfil": criar_analise_perfil of
\* streamlit_app.py assigns the column 'Faixa Etaria' to it, the last column
\* of the table; the other two dashboards bucket a copy
ExpAfterTabs(v, t) ==
    IF v = "app"
    THEN [columns |-> Append(t.columns, "Faixa Etaria"),
          rows    |-> AssignFaixaEtaria(v, [columns |-> Range(t.columns),
                                            rows    |-> t.rows]).rows]
    ELSE t

ExpInit ==
    /\ exp_pc = "read"
    /\ exp_variant \in {"app", "cefet", "joao"}
    /\ exp_in \in ExpTables(exp_variant)
    /\ exp_df = <<>>
    /\ exp_out = <<>>
    /\ SlugOff
    /\ MapOff
    /\ SessOff
    /\ DistOff
    /\ TabOff
    /\ AgeOff
    /\ LikOff
    /\ MxOff
    /\ KpiOff
    /\ IdOff

\* df_processed, stats = processar_dados(df) (streamlit_app.py line 355),
\* process_data(df) (streamlit_app_cefet.py line 460, JOAO-cefet-main line 658)
ExpProcess ==
    /\ exp_pc = "read"
    /\ exp_df' = [columns |-> exp_in.columns,
                  rows    |-> AgeProcess(exp_variant, exp_in).rows]
    /\ exp_pc' = "processed"
    /\ UNCHANGED <<exp_variant, exp_in, exp_out, slugVars, mapVars, sessVars, distVars,
                   tabVars, ageVars, likVars, mxVars, kpiVars, idVars>>

\* the with-blocks of the tabs
ExpTabs ==
    /\ exp_pc = "processed"
    /\ exp_df' = ExpAfterTabs(exp_variant, exp_df)
    /\ exp_pc' = "rendered"
    /\ UNCHANGED <<exp_variant, exp_in, exp_out, slugVars, mapVars, sessVars, distVars,
                   tabVars, ageVars, likVars, mxVars, kpiVars, idVars>>

\* df_processed.to_excel(writer, index=False, ...) / df_processed.to_csv(index=False)
ExpDownload ==
    /\ exp_pc = "rendered"
    /\ exp_out' = exp_df
    /\ exp_pc' = "downloaded"
    /\ UNCHANGED <<exp_variant, exp_in, exp_df, slugVars, mapVars, sessVars, distVars,
                   tabVars, ageVars, likVars, mxVars, kpiVars, idVars>>

ExpNext == ExpProcess \/ ExpTabs \/ ExpDownload

SpecExport == ExpInit /\ [][ExpNext]_vars

(***************************************************************************)
(* Claims about the download                                               *)
(***************************************************************************)
\* C24: the table offered for download at the end of a session has exactly
\* one row per row of the input, in the order of the input, with the cells
\* of the input and the columns of the input in their order; only the names
\* of the columns may differ.
C24_ExportIsInputRowForRow ==
    exp_pc = "downloaded" =>
        /\ Len(exp_out.rows) = Len(exp_in.rows)
        /\ Len(exp_out.columns) = Len(exp_in.columns)
        /\ \A i \in DOMAIN exp_in.rows : \A k \in DOMAIN exp_in.columns :
              /\ i \in DOMAIN exp_out.rows
              /\ k \in DOMAIN exp_out.columns
              /\ exp_out.rows[i][exp_out.columns[k]] = exp_in.rows[i][exp_in.columns[k]]

(***************************************************************************)
(* SpecKpi: the percentages of the overview tab of each dashboard          *)
(***************************************************************************)
\* the profile column and the founder column each dashboard reads
VoceCol(v) == IF v = "app" THEN "VOCE E" ELSE "voce_e"

FundadorCol(v) ==
    CASE v = "app"   -> "Voce e socio(a) ou fundador(a) de alguma empresa?Response"
      [] v = "cefet" -> "socio_ou_fundador"
      [] v = "joao"  -> "Fundador"

ALUNO == "SOU ALUNO(A) DE GRADUACAO."

VoceCells == {ALUNO, "SOU EX-ALUNO(A).", "SOU PROFESSOR(A).", NA}

FundadorCells == {"Sim", "Nao", NA}

\* str.contains('ALUNO', case=False, na=False)
ContainsAluno(c) == c \in {ALUNO, "SOU EX-ALUNO(A)."}

KpiRead(v) ==
    {[columns |-> {"respondent_id", VoceCol(v), FundadorCol(v)}, rows |-> rs] :
        rs \in SeqsUpTo({[c \in {"respondent_id", VoceCol(v), FundadorCol(v)} |->
                            IF c = "respondent_id" THEN id
                            ELSE IF c = VoceCol(v) THEN voce ELSE fundador] :
                              id \in 1..MaxIds, voce \in VoceCells,
                              fundador \in FundadorCells}, MaxKpiRows)}

\* the processed tables handed to the overview
KpiTables(v) == {AgeProcess(v, t) : t \in KpiRead(v)}

CountRows(t, P(_)) == Cardinality({i \in DOMAIN t.rows : P(t.rows[i])})

\* (n / d * 100) if d > 0 else 0, as shown with one decimal
PercentOrZero(n, d) == IF d > 0 THEN PyInt(RoundDiv(n * 1000, d)) ELSE PyInt(0)

\* criar_metricas_gerais(df, stats) of streamlit_app.py: len(...) and
\* stats['total_unicos'] are Python integers, whose division by 0 raises
CriarMetricasGeraisResult(t) ==
    LET total_unicos     == Len(t.rows)
        total_alunos     == CountRows(t, LAMBDA r : r[VoceCol("app")] = ALUNO)
        total_fundadores == CountRows(t, LAMBDA r : r[FundadorCol("app")] = "Sim")
    IN  IF total_unicos = 0 THEN [shown |-> "ZeroDivisionError"]
        ELSE [shown |-> "metrics",
              pct   |-> <<PyInt(RoundDiv(total_alunos * 1000, total_unicos)),
                          PyInt(RoundDiv(total_fundadores * 1000, total_unicos))>>]

\* show_kpis(df, stats, tech_to_label) of streamlit_app_cefet.py: the sums
\* are numpy integers, whose division 0 / 0 gives NaN
ShowKpisResult(t) ==
    LET total_unicos     == Len(t.rows)
        total_alunos     == CountRows(t, LAMBDA r : ContainsAluno(r[VoceCol("cefet")]))
        total_fundadores == CountRows(t, LAMBDA r : r[FundadorCol("cefet")] = "Sim")
    IN  [shown |-> "metrics",
         pct   |-> <<IF total_unicos = 0 THEN NaN
                     ELSE PyInt(RoundDiv(total_alunos * 1000, total_unicos)),
                     IF total_unicos = 0 THEN NaN
                     ELSE PyInt(RoundDiv(total_fundadores * 1000, total_unicos))>>]

\* show_complete_overview(df, id_col) of JOAO-cefet-main
ShowCompleteOverviewResult(t) ==
    LET total_respondentes == Nunique(t, "respondent_id")
        fundadores ==
            Cardinality({t.rows[i]["respondent_id"] :
                           i \in {k \in DOMAIN t.rows :
                                    t.rows[k][FundadorCol("joao")] = "Sim"}})
    IN  [shown |-> "metrics",
         pct   |-> <<PercentOrZero(fundadores, total_respondentes)>>]

KpiInit ==
    /\ kpi_pc = "init"
    /\ kpi_variant \in {"app", "cefet", "joao"}
    /\ kpi_df \in KpiTables(kpi_variant)
    /\ kpi_out = <<>>
    /\ SlugOff
    /\ MapOff
    /\ SessOff
    /\ DistOff
    /\ TabOff
    /\ AgeOff
    /\ LikOff
    /\ MxOff
    /\ IdOff
    /\ ExpOff

CriarMetricasGerais ==
    /\ kpi_pc = "init"
    /\ kpi_variant = "app"
    /\ kpi_out' = CriarMetricasGeraisResult(kpi_df)
    /\ kpi_pc' = "shown"
    /\ UNCHANGED <<kpi_variant, kpi_df, slugVars, mapVars, sessVars, distVars, tabVars,
                   ageVars, likVars, mxVars, idVars, expVars>>

ShowKpis ==
    /\ kpi_pc = "init"
    /\ kpi_variant = "cefet"
    /\ kpi_out' = ShowKpisResult(kpi_df)
    /\ kpi_pc' = "shown"
    /\ UNCHANGED <<kpi_variant, kpi_df, slugVars, mapVars, sessVars, distVars, tabVars,
                   ageVars, likVars, mxVars, idVars, expVars>>

ShowCompleteOverview ==
    /\ kpi_pc = "init"
    /\ kpi_variant = "joao"
    /\ kpi_out' = ShowCompleteOverviewResult(kpi_df)
    /\ kpi_pc' = "shown"
    /\ UNCHANGED <<kpi_variant, kpi_df, slugVars, mapVars, sessVars, distVars, tabVars,
                   ageVars, likVars, mxVars, idVars, expVars>>

KpiNext == CriarMetricasGerais \/ ShowKpis \/ ShowCompleteOverview

SpecKpi == KpiInit /\ [][KpiNext]_vars

(***************************************************************************)
(* Claims about the percentages of the overview                            *)
(***************************************************************************)
\* C25: every percentage an aggregation or a KPI computes lies in [0, 100]
\* and is 0 when its denominator is 0; no aggregation fails on an empty
\* table or on a column whose cells are all empty.
C25_PercentageInRangeZeroOnEmpty ==
    kpi_pc = "shown" =>
        /\ kpi_out.shown = "metrics"
        /\ \A k \in DOMAIN kpi_out.pct :
              /\ kpi_out.pct[k].t = "int"
              /\ kpi_out.pct[k].v \in 0..1000
              /\ kpi_df.rows = <<>> => kpi_out.pct[k].v = 0

(***************************************************************************)
(* SpecId: find_respondent_id_col of JOAO-cefet-main/streamlit_app.py      *)
(***************************************************************************)
ID_CANDIDATES ==
    <<<<"r","e","s","p","o","n","d","e","n","t","_","i","d">>,
      <<"r","e","s","p","o","n","d","e","n","t","e","_","i","d">>,
      <<"i","d","_","r","e","s","p","o","n","d","e","n","t","e">>,
      <<"r","e","s","p","o","n","d","e","n","t","i","d">>,
      <<"i","d","r","e","s","p","o","n","d","e","n","t","e">>>>

\* s.strip(): the spaces at both ends go
RECURSIVE Strip(_)
Strip(s) ==
    IF s = <<>> THEN s
    ELSE IF Head(s) = " " THEN Strip(Tail(s))
    ELSE IF s[Len(s)] = " " THEN Strip(SubSeq(s, 1, Len(s) - 1))
    ELSE s

\* str.lower() on one character: U+00D3 (O acute) -> U+00F3 (o acute)
LowerUnicodeChar(ch) == IF ch = "U+00D3" THEN "U+00F3" ELSE LowerChar(ch)

\* unicodedata.normalize('NFD', ch) for one character:
\*   U+00F3 (o acute) -> o, U+0301;  U+00D3 (O acute) -> O, U+0301;
\*   U+00BA (masculine ordinal) has no canonical decomposition
NFDChar(ch) ==
    CASE ch = "U+00F3" -> <<"o", "U+0301">>
      [] ch = "U+00D3" -> <<"O", "U+0301">>
      [] OTHER         -> <<ch>>

RECURSIVE NFD(_)
NFD(s) == IF s = <<>> THEN <<>> ELSE NFDChar(Head(s)) \o NFD(Tail(s))

\* unicodedata.category(ch) == 'Mn': U+0301 COMBINING ACUTE ACCENT
IsMn(ch) == ch = "U+0301"

\* normalize_text(s) for a text s: strip, lower, NFD without the marks of
\* category Mn, and re.sub(r'[^a-z0-9]+', '', s)
NormalizeText(s) ==
    LET lowered == [i \in DOMAIN Strip(s) |-> LowerUnicodeChar(Strip(s)[i])]
        unmarked == SelectSeq(NFD(lowered), LAMBDA ch : ~IsMn(ch))
    IN  SelectSeq(unmarked, LAMBDA ch : ch \in LowerLetters \cup Digits)

\* sub in s, for two texts
Contains(s, sub) ==
    \E i \in 1..(Len(s) - Len(sub) + 1) : SubSeq(s, i, i + Len(sub) - 1) = sub

\* cols_norm = {normalize_text(c): c for c in df.columns}: the items in the
\* order in which their keys came first, each key with the last column that
\* has it
RECURSIVE ColsNorm(_)
ColsNorm(columns) ==
    IF columns = <<>> THEN <<>>
    ELSE LET d == ColsNorm(SubSeq(columns, 1, Len(columns) - 1))
             c == columns[Len(columns)]
             k == NormalizeText(c)
         IN  IF \E i \in DOMAIN d : d[i].norm = k
             THEN [i \in DOMAIN d |->
                     IF d[i].norm = k THEN [norm |-> k, orig |-> c] ELSE d[i]]
             ELSE Append(d, [norm |-> k, orig |-> c])

\* faulty variant: the candidates are tried from the last to the first
CandidateHitsLastFirst(cols_norm) ==
    LET hits == SelectSeq(ID_CANDIDATES,
                    LAMBDA candidate :
                        \E i \in DOMAIN cols_norm :
                            cols_norm[i].norm = NormalizeText(candidate))
    IN  [i \in DOMAIN hits |-> hits[Len(hits) + 1 - i]]

\* the candidates of ID_CANDIDATES, in list order, for which
\* normalize_text(candidate) in cols_norm
CandidateHits(cols_norm) ==
    SelectSeq(ID_CANDIDATES,
              LAMBDA candidate :
                  \E i \in DOMAIN cols_norm :
                      cols_norm[i].norm = NormalizeText(candidate))

T_respondent  == <<"r","e","s","p","o","n","d","e","n","t">>
T_respondente == <<"r","e","s","p","o","n","d","e","n","t","e">>
T_id          == <<"i","d">>

\* the keys of the second loop
FallbackKeys == <<T_respondent, T_respondente, T_id>>

\* key in norm_name and ("respondent" in norm_name or "respondente" in norm_name)
FallbackMatch(key, norm_name) ==
    /\ Contains(norm_name, key)
    /\ Contains(norm_name, T_respondent) \/ Contains(norm_name, T_respondente)

ValueError == [t |-> "ValueError"]

\* find_respondent_id_col(df), df.columns = columns
FindRespondentIdCol(columns) ==
    LET cols_norm   == ColsNorm(columns)
        hits        == CandidateHits(cols_norm)
        items(key)  == SelectSeq(cols_norm, LAMBDA it : FallbackMatch(key, it.norm))
        keys        == SelectSeq(FallbackKeys, LAMBDA key : items(key) # <<>>)
    IN  IF hits # <<>>
        THEN [t |-> "column",
              v |-> cols_norm[CHOOSE i \in DOMAIN cols_norm :
                                 cols_norm[i].norm = NormalizeText(hits[1])].orig]
        ELSE IF keys # <<>>
        THEN [t |-> "column", v |-> items(keys[1])[1].orig]
        ELSE ValueError

H_respondent_id  == <<"r","e","s","p","o","n","d","e","n","t","_","i","d">>
H_IdRespondente  == <<"I","D"," ","R","e","s","p","o","n","d","e","n","t","e">>
H_Respondente    == <<" ","R","e","s","p","o","n","d","e","n","t","e"," ">>
H_Codigo         == <<"C","U+00D3","D","I","G","O"," ","R","E","S","P","O","N","D","E","N","T","E">>
H_ID             == <<"I","D">>

\* the headers of a workbook: texts, no two columns with the same header
IdHeaders ==
    {H_respondent_id, H_RespondentId, H_IdRespondente, H_Respondente, H_Codigo,
     H_Idade, H_ID}

IdColumnLists == {cs \in SeqsUpTo(IdHeaders, MaxIdCols) : Injective(cs)}

IdInit ==
    /\ id_pc = "init"
    /\ id_columns \in IdColumnLists
    /\ id_out = <<>>
    /\ SlugOff
    /\ MapOff
    /\ SessOff
    /\ DistOff
    /\ TabOff
    /\ AgeOff
    /\ LikOff
    /\ MxOff
    /\ KpiOff
    /\ ExpOff

\* id_col = find_respondent_id_col(df) in process_data (line 522)
FindRespondentIdColCall ==
    /\ id_pc = "init"
    /\ id_out' = FindRespondentIdCol(id_columns)
    /\ id_pc' = "found"
    /\ UNCHANGED <<id_columns, slugVars, mapVars, sessVars, distVars, tabVars, ageVars,
                   likVars, mxVars, kpiVars, expVars>>

IdNext == FindRespondentIdColCall

SpecId == IdInit /\ [][IdNext]_vars

(***************************************************************************)
(* Claims about the identifier column                                      *)
(***************************************************************************)
\* the positions of ID_CANDIDATES whose normalized text is the normalized
\* name of a column
MatchedCandidates ==
    {k \in DOMAIN ID_CANDIDATES :
        \E i \in DOMAIN id_columns :
            NormalizeText(id_columns[i]) = NormalizeText(ID_CANDIDATES[k])}

\* the columns whose normalized name contains "respondent" or "respondente"
RespondentColumns ==
    {i \in DOMAIN id_columns :
        \/ Contains(NormalizeText(id_columns[i]), T_respondent)
        \/ Contains(NormalizeText(id_columns[i]), T_respondente)}

\* C30: find_respondent_id_col returns the name of a column of the table: if
\* the normalized name of some column is a normalized candidate of
\* ID_CANDIDATES, a column for the first such candidate in list order;
\* otherwise a column whose normalized name contains "respondent" or
\* "respondente"; it raises exactly when no column qualifies, and two columns
\* with the same normalized name never make it fail.
C30_FindsIdColumnByCandidateOrder ==
    id_pc = "found" =>
        IF MatchedCandidates # {}
        THEN LET first == CHOOSE k \in MatchedCandidates :
                              \A j \in MatchedCandidates : k <= j
             IN  /\ id_out.t = "column"
                 /\ id_out.v \in Range(id_columns)
                 /\ NormalizeText(id_out.v) = NormalizeText(ID_CANDIDATES[first])
        ELSE IF RespondentColumns # {}
        THEN /\ id_out.t = "column"
             /\ \E i \in RespondentColumns : id_out.v = id_columns[i]
        ELSE id_out = ValueError

\* the third candidate matches the first column and the first candidate the
\* two other columns, which share their normalized name: the later of the
\* two is returned
C30_Witness ==
    /\ id_pc = "found"
    /\ id_columns = <<H_IdRespondente, H_respondent_id, H_RespondentId>>
    /\ id_out = [t |-> "column", v |-> H_RespondentId]

(***************************************************************************)
(* Claims about the session                                                *)
(***************************************************************************)
\* C1: two rows of the input that share a respondent identifier but differ in
\* at least one other column are both still present in the processed table.
C1_OnlyFullDuplicatesRemoved ==
    pc \in {"processed", "cursos"} =>
        \A i, j \in DOMAIN df.rows :
            (/\ i < j
             /\ df.rows[i]["respondent_id"] = df.rows[j]["respondent_id"]
             /\ df.rows[i] # df.rows[j]) =>
                {df.rows[i], df.rows[j]} \subseteq Range(df_processed.rows)

\* the number of rows of t with a non-missing cell in col
NonMissing(t, col) == Cardinality({i \in DOMAIN t.rows : t.rows[i][col] # NA})

\* C10: the row-count distribution uses as percentage denominator the number of
\* rows with a non-missing value in the category column (not the total number
\* of rows); each category's count is the number of rows bearing that value and
\* percentage = count / total_base * 100.
C10_RowCountBaseIsNonMissing ==
    (pc = "cursos" /\ cursos.shown = "table") =>
        LET col  == CursoCol(variant)
            base == NonMissing(df_processed, col)
        IN  \A v \in DOMAIN cursos.Quantidade :
                /\ cursos.Quantidade[v] =
                      Cardinality({i \in DOMAIN df_processed.rows :
                                     df_processed.rows[i][col] = v})
                /\ cursos.Percentual[v] = RoundDiv(cursos.Quantidade[v] * 10000, base)

(***************************************************************************)
(* Claims about _slugify                                                   *)
(***************************************************************************)
\* C2: for every header h, slugify(slugify(h)) equals slugify(h).
C2_SlugifyIdempotent ==
    slug_pc \in {"again", "done"} => slug_again = slug_out

\* C2 witness: a header that slugify changes (accent, case, separators) has
\* been slugified twice.
C2_Witness ==
    /\ slug_pc = "again"
    /\ slug_in = PyStr(<<" ", "U+00C9", "_">>)
    /\ slug_out = <<"e">>

SlugChars == Digits \cup LowerLetters \cup {"_"}

\* C3: for every header h, slugify(h) contains only the characters a-z, 0-9
\* and underscore, and its length is at most 120.
C3_SlugCharsetAndLength ==
    slug_pc \in {"called", "again", "done"} =>
        /\ Range(slug_out) \subseteq SlugChars
        /\ Len(slug_out) <= 120

\* C4 as stated: for every value x, absent values included, slugify(x) equals
\* slugify(string form of x).
C4_CoercedAlways ==
    slug_pc = "done" => slug_out = slug_str_out

\* C4 amended: every value other than None is coerced to its string form
\* first, so slugify(x) equals slugify(str(x)); None is not coerced and gives
\* the empty slug.
C4_CoercedUnlessNone ==
    slug_pc = "done" =>
        IF slug_in = None THEN slug_out = <<>> ELSE slug_out = slug_str_out

\* C4 witness: the absent value has been slugified, and so has its string
\* form "None".
C4_Witness ==
    /\ slug_pc = "done"
    /\ slug_in = None
    /\ slug_str_out = <<"n", "o", "n", "e">>

(***************************************************************************)
(* Claims about the column mapping                                         *)
(***************************************************************************)
SlugOfHeader(h) == Slugify(PyStr(h))

\* a mapping was supplied: the mapping file exists
MappingSupplied == map_file.exists

\* no mapping was supplied: the file is absent, or it gave no entry
NoMappingSupplied == ~map_file.exists \/ DOMAIN map_loaded.mapping = {}

\* C5: when a mapping is supplied, exactly the columns whose header is a key of
\* the mapping are renamed (to the mapping's value); every other column keeps
\* its original header, it is not slugified.
C5_RenamesOnlyMappedColumns ==
    (map_pc = "applied" /\ MappingSupplied) =>
        /\ DOMAIN map_out.columns = DOMAIN map_df.columns
        /\ \A j \in DOMAIN map_df.columns :
              map_out.columns[j] =
                  IF map_df.columns[j] \in DOMAIN map_loaded.mapping
                  THEN map_loaded.mapping[map_df.columns[j]]
                  ELSE map_df.columns[j]

\* C5 witness: a supplied mapping names one of two columns; that one is
\* renamed, the other one, which slugify would change, keeps its header.
C5_Witness ==
    /\ map_pc = "applied"
    /\ MappingSupplied
    /\ map_df.columns = <<H_Idade, H_IDADE>>
    /\ map_out.columns = <<N_idade_anos, H_IDADE>>

C7_NoColumnLostNoDuplicateName ==
    map_pc = "applied" =>
        /\ Len(map_out.columns) = Len(map_df.columns)
        /\ map_out.rows = map_df.rows
        /\ Injective(map_out.columns)

\* C8: when two distinct original headers yield the same technical name, the
\* first one (in column order) gets the technical name and its label entry, and
\* the later one is retained under its original header.
C8_CollisionKeepsFirst ==
    map_pc = "applied" =>
        \A i, j \in DOMAIN map_df.columns :
            LET m  == map_loaded.mapping
                ci == map_df.columns[i]
                cj == map_df.columns[j]
            IN  (i < j /\ ci \in DOMAIN m /\ cj \in DOMAIN m /\ m[ci] = m[cj]) =>
                    /\ map_out.columns[i] = m[ci]
                    /\ map_out.columns[j] = cj
                    /\ (~map_file.exists => map_loaded.labels[m[ci]] = ci)

\* the file exists and lacks one of the four required logical columns, even
\* when its column names are compared without regard to case
BadMappingFile ==
    /\ map_file.exists
    /\ ~(Required \subseteq {LowerName(c) : c \in Range(map_file.columns)})

\* C9: with a mapping file that lacks the required columns, applying the column
\* mapping never fails: the caller falls back to slugifying every header.
C9_BadFileFallsBackToSlugs ==
    BadMappingFile =>
        /\ map_pc # "failed"
        /\ map_pc = "applied" =>
              \A j \in DOMAIN map_df.columns :
                  map_out.columns[j] = SlugOfHeader(map_df.columns[j])

====
